---- MODULE Spec2Model ----
(***************************************************************************)
(* A model of mkvtool (github.com/marcopaganini/mkvtool).                  *)
(*                                                                         *)
(* The parts of the program that are modelled:                             *)
(*   - track selection and the commands built from the selected track      *)
(*     (trackByLanguage, setdefault, adddefault, extract, submux and the   *)
(*     CLI actions that call them): Spec, SpecRun, SpecCli;                *)
(*   - the mask renderer (format): SpecFormat;                             *)
(*   - rename and print: SpecRename, SpecPrint;                            *)
(*   - calls of format and trackByLanguage that overlap: SpecConc;         *)
(*   - the actions that take several files: SpecBatch;                     *)
(*   - runCommand.run and its child process: SpecPipe;                     *)
(*   - the event parser of the earlier version: SpecParser.                *)
(*                                                                         *)
(* Strings the program only compares are TLA+ strings. Strings the program *)
(* looks into (track names, masks, rendered output) are sequences of       *)
(* one-character strings.                                                  *)
(***************************************************************************)
EXTENDS Integers, Sequences, FiniteSets, TLC

VARIABLES
    \* ---- track selection and command building ----
    pc,         \* position of the running CLI action
    action,     \* the CLI command: "setdefaultbylang", "setdefault", "only"
    mkv,        \* the parsed file: [FileName, Tracks]
    languages,  \* --lang values, in order
    ignore,     \* --ignore values
    tracknum,   \* --track value
    track,      \* the track number the action works with
    trackErr,   \* the error returned by trackByLanguage (Nil if none)
    err,        \* the error of the file's processing (Nil if none)
    cmds,       \* the commands handed to the runner, in order
    tmpfiles,   \* names of the temporary files that exist
    tfi,        \* trackFileInfo returned by extract
    nargs,      \* the number of file arguments
    hastrack,   \* --track is set
    haslang,    \* --lang is set
    type,       \* --type value
    parsed,     \* mustParseFile has read the file
    flags,      \* the default flag of each track of the file, by position
    logged,     \* the commands the dry-run runner has logged
    executed,   \* the commands the runner has executed
    \* ---- mask renderer ----
    fpc,        \* position of the running format call
    parts,      \* the pieces the user typed the mask from (the program sees
                \* only their concatenation, mask)
    mask,       \* the mask, a sequence of characters
    fields,     \* structs.Map(parsed): key -> value
    pos,        \* position in mask after the last match replaced
    formatted,  \* output built so far
    errlist,    \* the closure's error accumulator
    fret,       \* the string returned by format
    ferr,       \* the error returned by format (Nil if none)
    \* ---- rename ----
    rpc,        \* position of the running rename call
    fname,      \* the file name given to rename
    dryrun,     \* --dry-run
    printed,    \* the lines "old => new" printed
    renames,    \* the calls of os.Rename made
    rerr,       \* the error returned by rename (Nil if none)
    \* ---- calls that run concurrently ----
    calls,      \* the local variables of each running call, by caller
    \* ---- the actions that take several files ----
    bpc,        \* position of the running action
    baction,    \* the command: "print", "rename", "setdefault", "setdefaultbylang"
    files,      \* c.Args().Slice(), and what happens to be true of each file
    todo,       \* the files the loop ranges over
    fidx,       \* position of the loop in todo
    errmsgs,    \* the action's list of error messages
    processed,  \* the files handed to format, rename or setdefault
    bret,       \* the error the action returns (Nil if none)
    \* ---- runCommand.run and the child process ----
    ppc,        \* position of run: "copyout", "copyerr", "wait", "returned"
    cpc,        \* the child: "running", "exited"
    towrite,    \* what the child has still to write, "out" or "err" per chunk
    outpipe,    \* chunks in the pipe of the child's stdout
    errpipe,    \* chunks in the pipe of the child's stderr
    \* ---- the event parser of the earlier version ----
    handler,    \* the mkvParser: [track, tracks, inTrack]
    open,       \* the master elements begun and not yet ended, outermost first
    delivered   \* the events the library has delivered, in order

selVars == <<pc, action, mkv, languages, ignore, tracknum, track, trackErr,
             err, cmds, tmpfiles, tfi, nargs, hastrack, haslang, type, parsed,
             flags, logged, executed>>
\* What the runner changes.
runVars == <<cmds, flags, logged, executed>>
\* The command line of the action.
argVars == <<action, mkv, languages, ignore, tracknum, nargs, hastrack, haslang>>
fmtVars == <<fpc, parts, mask, fields, pos, formatted, errlist, fret, ferr>>
renVars == <<rpc, fname, dryrun, printed, renames, rerr>>
conVars == <<calls>>
batchVars == <<bpc, baction, files, todo, fidx, errmsgs, processed, bret>>
\* The parts of the program beyond the three above.
pipeVars == <<ppc, cpc, towrite, outpipe, errpipe>>
parserVars == <<handler, open, delivered>>
extVars == <<conVars, batchVars, pipeVars, parserVars>>
vars == <<selVars, fmtVars, renVars, extVars>>

----------------------------------------------------------------------------
(* Bounds of the model. *)

\* Longest track list of a file.
MaxTracks == 3
\* Longest --lang list.
MaxLangs == 2
\* Most tracks of a file whose commands are run.
MaxRunTracks == 3
\* Most pieces (tokens and stretches of literal text) of a mask.
MaxParts == 2
\* The largest number of files given to an action.
MaxFiles == 3
\* The number of chunks a pipe holds before a write to it blocks.
PipeCap == 2
\* The largest number of chunks the child writes.
MaxWrites == 5
\* The largest number of events the library delivers for a file.
MaxEvents == 5

----------------------------------------------------------------------------
(* Characters and strings. *)

\* The no-error value.
Nil == [kind |-> "nil"]

\* Upper-case letters and their lower-case forms (unicode.ToLower on the
\* letters the model uses).
LowerOf == [c \in {"A","B","C","D","E","F","G","H","I","J","K","L","M","N",
                  "O","P","Q","R","S","T","U","V","W","X","Y","Z"} |->
    CASE c = "A" -> "a" [] c = "B" -> "b" [] c = "C" -> "c" [] c = "D" -> "d"
      [] c = "E" -> "e" [] c = "F" -> "f" [] c = "G" -> "g" [] c = "H" -> "h"
      [] c = "I" -> "i" [] c = "J" -> "j" [] c = "K" -> "k" [] c = "L" -> "l"
      [] c = "M" -> "m" [] c = "N" -> "n" [] c = "O" -> "o" [] c = "P" -> "p"
      [] c = "Q" -> "q" [] c = "R" -> "r" [] c = "S" -> "s" [] c = "T" -> "t"
      [] c = "U" -> "u" [] c = "V" -> "v" [] c = "W" -> "w" [] c = "X" -> "x"
      [] c = "Y" -> "y" [] c = "Z" -> "z"]

\* strings.ToLower
ToLower(s) ==
    [i \in 1..Len(s) |-> IF s[i] \in DOMAIN LowerOf THEN LowerOf[s[i]] ELSE s[i]]

\* The upper-case form of a lower-case letter.
UpperOf == [c \in {LowerOf[u] : u \in DOMAIN LowerOf} |->
               CHOOSE u \in DOMAIN LowerOf : LowerOf[u] = c]

LowerLetters == DOMAIN UpperOf
Letters == DOMAIN LowerOf \cup DOMAIN UpperOf
Digits == {"0", "1", "2", "3", "4", "5", "6", "7", "8", "9"}

DigitValue ==
    [c \in Digits |->
        CASE c = "0" -> 0 [] c = "1" -> 1 [] c = "2" -> 2 [] c = "3" -> 3
          [] c = "4" -> 4 [] c = "5" -> 5 [] c = "6" -> 6 [] c = "7" -> 7
          [] c = "8" -> 8 [] c = "9" -> 9]

DigitChar == [d \in 0..9 |-> CHOOSE c \in Digits : DigitValue[c] = d]

\* strings.Contains
Contains(s, substr) ==
    \E i \in 0..(Len(s) - Len(substr)) : SubSeq(s, i + 1, i + Len(substr)) = substr

\* The characters of the strings the model holds as TLA+ strings: track names,
\* ignore strings, field values and field names.
Chars(str) ==
    CASE str = "" -> <<>>
      [] str = "Series Title S01E02 [1080p].mkv" ->
            <<"S","e","r","i","e","s"," ","T","i","t","l","e"," ","S","0","1","E","0","2"," ","[","1","0","8","0","p","]",".","m","k","v">>
      [] str = "a bad title that makes one of a kind 2022.mkv" ->
            <<"a"," ","b","a","d"," ","t","i","t","l","e"," ","t","h","a","t"," ","m","a","k","e","s"," ","o","n","e"," ","o","f"," ","a"," ","k","i","n","d"," ","2","0","2","2",".","m","k","v">>
      [] str = "tv/Series Title S01E02 [1080p].mkv" ->
            <<"t","v","/","S","e","r","i","e","s"," ","T","i","t","l","e"," ","S","0","1","E","0","2"," ","[","1","0","8","0","p","]",".","m","k","v">>
      [] str = "%{year}.mkv" ->
            <<"%","{","y","e","a","r","}",".","m","k","v">>
      [] str = "English" ->
            <<"E","n","g","l","i","s","h">>
      [] str = "English (Forced)" ->
            <<"E","n","g","l","i","s","h"," ","(","F","o","r","c","e","d",")">>
      [] str = "forced" ->
            <<"f","o","r","c","e","d">>
      [] str = "FORCED" ->
            <<"F","O","R","C","E","D">>
      [] str = "sdh" ->
            <<"s","d","h">>
      [] str = "foo" ->
            <<"f","o","o">>
      [] str = "Series Title" ->
            <<"S","e","r","i","e","s"," ","T","i","t","l","e">>
      [] str = "the bad title" ->
            <<"t","h","e"," ","b","a","d"," ","t","i","t","l","e">>
      [] str = "a bad title that makes one of a kind" ->
            <<"a"," ","b","a","d"," ","t","i","t","l","e"," ","t","h","a","t"," ","m","a","k","e","s"," ","o","n","e"," ","o","f"," ","a"," ","k","i","n","d">>
      [] str = "HDTV" ->
            <<"H","D","T","V">>
      [] str = "Title" ->
            <<"T","i","t","l","e">>
      [] str = "Season" ->
            <<"S","e","a","s","o","n">>
      [] str = "Episode" ->
            <<"E","p","i","s","o","d","e">>
      [] str = "Year" ->
            <<"Y","e","a","r">>
      [] str = "Quality" ->
            <<"Q","u","a","l","i","t","y">>
      [] str = "Proper" ->
            <<"P","r","o","p","e","r">>

----------------------------------------------------------------------------
(* Track selection. *)

typeSubtitle == "subtitles"

\* A mutant of stringInSlice: the comparison is case sensitive.
stringInSliceCaseSensitive(s, slc) ==
    \E k \in 1..Len(slc) : Contains(Chars(s), Chars(slc[k]))

\* stringInSlice: the name contains one of the strings, letter case ignored.
RECURSIVE stringInSliceFrom(_, _, _)
stringInSliceFrom(s, slc, i) ==
    IF i > Len(slc) THEN FALSE
    ELSE IF Contains(ToLower(Chars(s)), ToLower(Chars(slc[i]))) THEN TRUE
    ELSE stringInSliceFrom(s, slc, i + 1)

stringInSlice(s, slc) == stringInSliceFrom(s, slc, 1)

\* A mutant of scanTracks: an ignored track ends the scan of its language.
RECURSIVE scanTracksStopAtIgnored(_, _, _, _)
scanTracksStopAtIgnored(tracks, lang, ign, i) ==
    IF i > Len(tracks) THEN [found |-> FALSE, id |-> 0]
    ELSE IF tracks[i].Type # typeSubtitle \/ tracks[i].Language # lang
         THEN scanTracksStopAtIgnored(tracks, lang, ign, i + 1)
    ELSE IF stringInSlice(tracks[i].TrackName, ign)
         THEN [found |-> FALSE, id |-> 0]
    ELSE [found |-> TRUE, id |-> tracks[i].ID]

\* The inner loop of trackByLanguage: the first track, from position i on,
\* that is a subtitle track in language lang and is not ignored.
RECURSIVE scanTracks(_, _, _, _)
scanTracks(tracks, lang, ign, i) ==
    IF i > Len(tracks) THEN [found |-> FALSE, id |-> 0]
    ELSE IF tracks[i].Type # typeSubtitle \/ tracks[i].Language # lang
         THEN scanTracks(tracks, lang, ign, i + 1)
    ELSE IF stringInSlice(tracks[i].TrackName, ign)
         THEN scanTracks(tracks, lang, ign, i + 1)
    ELSE [found |-> TRUE, id |-> tracks[i].ID]

\* A mutant of effectiveLang: "default" is not translated.
effectiveLangUntranslated(lang) == lang

\* The language a --lang entry stands for: "default" is the empty language.
effectiveLang(lang) == IF lang = "default" THEN "" ELSE lang

\* The outer loop of trackByLanguage, from language position l on.
RECURSIVE trackByLanguageFrom(_, _, _, _)
trackByLanguageFrom(m, langs, ign, l) ==
    IF l > Len(langs)
    THEN [id |-> 0, err |-> [kind |-> "no track with language(s)", languages |-> langs]]
    ELSE LET lang == effectiveLang(langs[l])
             r == scanTracks(m.Tracks, lang, ign, 1)
         IN IF r.found THEN [id |-> r.id, err |-> Nil]
            ELSE trackByLanguageFrom(m, langs, ign, l + 1)

\* A mutant: the loops are nested the other way round, so the first track
\* in any of the languages wins.
RECURSIVE trackByLanguageTracksFirst(_, _, _, _)
trackByLanguageTracksFirst(m, langs, ign, i) ==
    IF i > Len(m.Tracks)
    THEN [id |-> 0, err |-> [kind |-> "no track with language(s)", languages |-> langs]]
    ELSE LET t == m.Tracks[i]
         IN IF /\ t.Type = typeSubtitle
               /\ \E l \in 1..Len(langs) :
                     t.Language = effectiveLang(langs[l])
               /\ ~stringInSlice(t.TrackName, ign)
            THEN [id |-> t.ID, err |-> Nil]
            ELSE trackByLanguageTracksFirst(m, langs, ign, i + 1)

trackByLanguageMutOrder(m, langs, ign) == trackByLanguageTracksFirst(m, langs, ign, 1)

trackByLanguage(m, langs, ign) == trackByLanguageFrom(m, langs, ign, 1)

\* The earlier version of the program (subtool), which reads the tracks with
\* an event parser: the track type is Matroska's number, the track number is
\* the one stored in the file, which starts at 1.
oldTypeSubtitle == 17

\* The inner loop of the earlier trackByLanguage.
RECURSIVE oldScanTracks(_, _, _)
oldScanTracks(tracks, lang, i) ==
    IF i > Len(tracks) THEN [found |-> FALSE, number |-> 0]
    ELSE IF tracks[i].tracktype = oldTypeSubtitle /\ tracks[i].language = lang
         THEN [found |-> TRUE, number |-> tracks[i].number]
         ELSE oldScanTracks(tracks, lang, i + 1)

\* A mutant of oldTrackByLanguageFrom: "default" is not translated.
RECURSIVE oldTrackByLanguageNoDefault(_, _, _)
oldTrackByLanguageNoDefault(tracks, langs, l) ==
    IF l > Len(langs)
    THEN [number |-> 0,
          err |-> [kind |-> "no track with language(s)", languages |-> langs]]
    ELSE LET r == oldScanTracks(tracks, langs[l], 1)
         IN IF r.found THEN [number |-> r.number, err |-> Nil]
            ELSE oldTrackByLanguageNoDefault(tracks, langs, l + 1)

\* The outer loop of the earlier trackByLanguage, from language position l on.
RECURSIVE oldTrackByLanguageFrom(_, _, _)
oldTrackByLanguageFrom(tracks, langs, l) ==
    IF l > Len(langs)
    THEN [number |-> 0,
          err |-> [kind |-> "no track with language(s)", languages |-> langs]]
    ELSE LET lang == IF langs[l] = "default" THEN "" ELSE langs[l]
             r == oldScanTracks(tracks, lang, 1)
         IN IF r.found THEN [number |-> r.number, err |-> Nil]
            ELSE oldTrackByLanguageFrom(tracks, langs, l + 1)

oldTrackByLanguage(tracks, langs) == oldTrackByLanguageFrom(tracks, langs, 1)

\* trackByLanguageAndType is not among the sources; it is taken from the
\* description of selectByLanguagePriority: trackByLanguage with the type of
\* the tracks given by the caller.
RECURSIVE scanTracksOfType(_, _, _, _, _)
scanTracksOfType(tracks, lang, ttype, ign, i) ==
    IF i > Len(tracks) THEN 0
    ELSE IF /\ tracks[i].Type = ttype
            /\ tracks[i].Language = lang
            /\ ~stringInSlice(tracks[i].TrackName, ign)
         THEN i
         ELSE scanTracksOfType(tracks, lang, ttype, ign, i + 1)

RECURSIVE trackByLanguageAndTypeFrom(_, _, _, _, _)
trackByLanguageAndTypeFrom(m, langs, ttype, ign, l) ==
    IF l > Len(langs)
    THEN [id |-> 0, err |-> [kind |-> "no track with language(s)", languages |-> langs]]
    ELSE LET i == scanTracksOfType(m.Tracks, effectiveLang(langs[l]), ttype, ign, 1)
         IN IF i # 0 THEN [id |-> m.Tracks[i].ID, err |-> Nil]
            ELSE trackByLanguageAndTypeFrom(m, langs, ttype, ign, l + 1)

trackByLanguageAndType(m, langs, ttype, ign) ==
    trackByLanguageAndTypeFrom(m, langs, ttype, ign, 1)

----------------------------------------------------------------------------
(* Commands built from a track number. *)

\* The --edit arguments of setdefault's first command: flag-default=0 on every
\* subtitle track, addressed in mkvpropedit's base-1 numbering.
RECURSIVE clearEdits(_, _)
clearEdits(tracks, i) ==
    IF i > Len(tracks) THEN <<>>
    ELSE IF tracks[i].Type = typeSubtitle
         THEN <<[edit |-> tracks[i].ID + 1, set |-> "flag-default=0"]>>
              \o clearEdits(tracks, i + 1)
         ELSE clearEdits(tracks, i + 1)

\* A mutant of setdefaultCommand: no flag is cleared.
setdefaultCommandNoEdits(m) ==
    [prog |-> "mkvpropedit", file |-> m.FileName, edits |-> <<>>]

setdefaultCommand(m) ==
    [prog |-> "mkvpropedit", file |-> m.FileName, edits |-> clearEdits(m.Tracks, 1)]

\* A mutant of findTrack: the track number is taken as base 1.
RECURSIVE findTrackBaseOne(_, _, _)
findTrackBaseOne(tracks, n, i) ==
    IF i > Len(tracks) THEN 0
    ELSE IF tracks[i].ID + 1 = n THEN i
    ELSE findTrackBaseOne(tracks, n, i + 1)

\* The lookup loop of extract and of adddefault: the position of the first
\* track whose ID is n, 0 if there is none.
RECURSIVE findTrack(_, _, _)
findTrack(tracks, n, i) ==
    IF i > Len(tracks) THEN 0
    ELSE IF tracks[i].ID = n THEN i
    ELSE findTrack(tracks, n, i + 1)

\* A mutant of adddefaultCommand: the track number is passed on unchanged.
adddefaultCommandSameNumber(m, n) ==
    [prog |-> "mkvpropedit", file |-> m.FileName,
     edits |-> <<[edit |-> n, set |-> "flag-default=1"]>>]

adddefaultCommand(m, n) ==
    [prog |-> "mkvpropedit", file |-> m.FileName,
     edits |-> <<[edit |-> n + 1, set |-> "flag-default=1"]>>]

extractCommand(m, n, temp) ==
    [prog |-> "mkvextract", file |-> m.FileName, mode |-> "tracks",
     track |-> n, dest |-> temp]

submuxCommand(infile, outfile, nosubs, subs) ==
    [prog |-> "mkvmerge", out |-> outfile, nosubs |-> nosubs, infile |-> infile,
     subs |-> subs]

\* The name ioutil.TempFile gives the new file.
TempName == "/tmp/mkvtool1"
OutFile == "out.mkv"
NoFileInfo == [language |-> "", fname |-> ""]
RunError(prog) == [kind |-> "command failed", prog |-> prog]

----------------------------------------------------------------------------
(* The inputs of a run. *)

TrackLanguages == {"eng", "fra", ""}
TrackNames == {"English", "English (Forced)"}
PriorityEntries == {"eng", "fra", "default"}
IgnoreLists == {<<>>, <<"forced">>, <<"sdh", "FORCED">>}

\* What a track at position i of the file can be: mkvmerge numbers the tracks
\* from 0 in file order. A track that is no subtitle track is an English audio
\* track.
TracksAt(i) ==
    {[ID |-> i - 1, Type |-> typeSubtitle, Language |-> l, TrackName |-> n] :
        l \in TrackLanguages, n \in TrackNames}
    \cup {[ID |-> i - 1, Type |-> "audio", Language |-> "eng", TrackName |-> "English"]}

TrackLists ==
    UNION {{[i \in 1..n |-> [ID |-> i - 1, Type |-> c[i].Type,
                             Language |-> c[i].Language,
                             TrackName |-> c[i].TrackName]] :
                c \in [1..n -> TracksAt(1)]} : n \in 0..MaxTracks}

\* The --lang lists: every order of up to MaxLangs entries, no entry twice (a
\* second occurrence of an entry finds nothing the first did not find).
LanguageLists ==
    UNION {{l \in [1..n -> PriorityEntries] :
               \A i, j \in 1..n : i # j => l[i] # l[j]} : n \in 0..MaxLangs}

FmtIdle ==
    /\ fpc = "idle" /\ parts = <<>> /\ mask = <<>> /\ fields = <<>> /\ pos = 0
    /\ formatted = <<>> /\ errlist = <<>> /\ fret = <<>> /\ ferr = Nil

RenIdle ==
    /\ rpc = "idle" /\ fname = "" /\ dryrun = FALSE /\ printed = <<>>
    /\ renames = <<>> /\ rerr = Nil

ConIdle == calls = <<>>

BatchIdle ==
    /\ bpc = "idle" /\ baction = "" /\ files = <<>> /\ todo = <<>> /\ fidx = 0
    /\ errmsgs = <<>> /\ processed = <<>> /\ bret = Nil

PipeIdle ==
    /\ ppc = "idle" /\ cpc = "idle" /\ towrite = <<>> /\ outpipe = 0 /\ errpipe = 0

\* The zero value of trackinfo.
trackinfo ==
    [number |-> 0, uid |-> 0, name |-> "", tracktype |-> 0, language |-> "",
     flagDefault |-> FALSE, CodecID |-> ""]

\* mkvParser{fname: fname}, before the first event.
ParserIdle ==
    /\ handler = [track |-> trackinfo, tracks |-> <<>>, inTrack |-> FALSE]
    /\ open = <<>>
    /\ delivered = <<>>

ExtIdle == ConIdle /\ BatchIdle /\ PipeIdle /\ ParserIdle

Init ==
    /\ ExtIdle
    /\ RenIdle
    /\ pc = "start"
    /\ mkv \in {[FileName |-> "in.mkv", Tracks |-> t] : t \in TrackLists}
    /\ \/ /\ action = "setdefaultbylang"
          /\ languages \in LanguageLists
          /\ ignore \in IgnoreLists
          /\ tracknum = 0
       \/ /\ action \in {"setdefault", "only"}
          /\ languages = <<>>
          /\ ignore = <<>>
          /\ tracknum \in 0..MaxTracks
    /\ track = 0
    /\ trackErr = Nil
    /\ err = Nil
    /\ cmds = <<>>
    /\ tmpfiles = {}
    /\ tfi = NoFileInfo
    /\ nargs = 2
    /\ hastrack = (action # "setdefaultbylang")
    /\ haslang = (action = "setdefaultbylang")
    /\ type = "subtitles"
    /\ parsed = FALSE
    /\ flags = [i \in DOMAIN mkv.Tracks |-> FALSE]
    /\ logged = <<>>
    /\ executed = <<>>
    /\ FmtIdle

----------------------------------------------------------------------------
(* The runner. *)

\* The default flags after the edits of an mkvpropedit command: track:N is the
\* N-th track of the file.
RECURSIVE applyEdits(_, _, _)
applyEdits(fl, edits, i) ==
    IF i > Len(edits) THEN fl
    ELSE applyEdits(IF edits[i].edit \in DOMAIN fl
                    THEN [fl EXCEPT ![edits[i].edit] = (edits[i].set = "flag-default=1")]
                    ELSE fl,
                    edits, i + 1)

\* What the runner can return: fakeRunCommand.run returns nil, runCommand.run
\* returns what the command returns.
RunOutcomes == IF dryrun THEN {TRUE} ELSE BOOLEAN

\* A mutant of Run: the dry-run runner executes the command too.
RunAlwaysExecutes(c, ok) ==
    /\ cmds' = Append(cmds, c)
    /\ logged' = IF dryrun THEN Append(logged, c) ELSE logged
    /\ executed' = Append(executed, c)
    /\ flags' = IF ok /\ c.prog = "mkvpropedit"
                THEN applyEdits(flags, c.edits, 1)
                ELSE flags

\* cmd.run(c) that returns ok: the dry-run runner logs the command; the other
\* runner executes it, and an mkvpropedit that succeeds has edited the flags.
Run(c, ok) ==
    /\ cmds' = Append(cmds, c)
    /\ logged' = IF dryrun THEN Append(logged, c) ELSE logged
    /\ executed' = IF dryrun THEN executed ELSE Append(executed, c)
    /\ flags' = IF ~dryrun /\ ok /\ c.prog = "mkvpropedit"
                THEN applyEdits(flags, c.edits, 1)
                ELSE flags

----------------------------------------------------------------------------
(* The CLI actions, one file each. *)

\* A mutant of ActionSetDefaultByLang: the loop goes on to setdefault when
\* trackByLanguage returned an error.
ActionSetDefaultByLangNoContinue ==
    /\ pc = "start"
    /\ action = "setdefaultbylang"
    /\ LET r == trackByLanguage(mkv, languages, ignore)
       IN /\ track' = r.id
          /\ trackErr' = r.err
          /\ err' = r.err
          /\ pc' = "setdefault"
    /\ parsed' = TRUE
    /\ UNCHANGED <<argVars, type, runVars, tmpfiles, tfi>>
    /\ UNCHANGED <<fmtVars, renVars, extVars>>

\* actionSetDefaultByLang up to its call of setdefault.
ActionSetDefaultByLang ==
    /\ pc = "start"
    /\ action = "setdefaultbylang"
    /\ LET r == trackByLanguage(mkv, languages, ignore)
       IN /\ track' = r.id
          /\ trackErr' = r.err
          /\ err' = r.err
          /\ pc' = IF r.err # Nil THEN "done" ELSE "setdefault"
    /\ parsed' = TRUE
    /\ UNCHANGED <<argVars, type, runVars, tmpfiles, tfi>>
    /\ UNCHANGED <<fmtVars, renVars, extVars>>

\* actionSetDefault up to its call of setdefault.
ActionSetDefault ==
    /\ pc = "start"
    /\ action = "setdefault"
    /\ parsed' = TRUE
    /\ track' = tracknum
    /\ pc' = "setdefault"
    /\ UNCHANGED <<argVars, type, runVars, trackErr, err, tmpfiles, tfi>>
    /\ UNCHANGED <<fmtVars, renVars, extVars>>

\* A mutant of Setdefault: adddefault is called whatever the first command
\* returned.
SetdefaultIgnoresFailure ==
    /\ pc = "setdefault"
    /\ \E ok \in RunOutcomes :
          /\ Run(setdefaultCommand(mkv), ok)
          /\ err' = IF ok THEN err ELSE RunError("mkvpropedit")
          /\ pc' = "adddefault"
    /\ UNCHANGED <<argVars, type, parsed, track, trackErr, tmpfiles, tfi>>
    /\ UNCHANGED <<fmtVars, renVars, extVars>>

\* setdefault up to its call of adddefault: the command that clears the flag
\* of every subtitle track is run; the runner reports success or failure.
Setdefault ==
    /\ pc = "setdefault"
    /\ \E ok \in RunOutcomes :
          /\ Run(setdefaultCommand(mkv), ok)
          /\ err' = IF ok THEN err ELSE RunError("mkvpropedit")
          /\ pc' = IF ok THEN "adddefault" ELSE "done"
    /\ UNCHANGED <<argVars, type, parsed, track, trackErr, tmpfiles, tfi>>
    /\ UNCHANGED <<fmtVars, renVars, extVars>>

\* adddefault: looks the track up and runs the command that sets its flag.
Adddefault ==
    /\ pc = "adddefault"
    /\ IF findTrack(mkv.Tracks, track, 1) # 0
       THEN \E ok \in RunOutcomes :
               /\ Run(adddefaultCommand(mkv, track), ok)
               /\ err' = IF ok THEN err ELSE RunError("mkvpropedit")
       ELSE /\ UNCHANGED runVars
            /\ err' = [kind |-> "file does not contain track",
                       file |-> mkv.FileName, tracknum |-> track]
    /\ pc' = "done"
    /\ UNCHANGED <<argVars, type, parsed, track, trackErr, tmpfiles, tfi>>
    /\ UNCHANGED <<fmtVars, renVars, extVars>>

\* The types checkTrackType knows, and their full names.
tracktypes ==
    [t \in {"a", "v", "s", "aud", "vid", "sub", "audio", "video", "subtitles"} |->
        CASE t \in {"a", "aud", "audio"} -> "audio"
          [] t \in {"v", "vid", "video"} -> "video"
          [] OTHER -> "subtitles"]

\* A mutant of ActionSingleTrack: --track and --lang may be given together,
\* and --track is then the one used.
ActionSingleTrackNoExclusion ==
    /\ pc = "start"
    /\ action = "singletrack"
    /\ IF nargs # 2
       THEN /\ err' = [kind |-> "need input and output files"]
            /\ pc' = "done"
            /\ UNCHANGED <<type, parsed, track, trackErr>>
       ELSE IF ~hastrack /\ ~haslang
       THEN /\ err' = [kind |-> "must specify track (--track) OR language (--lang)"]
            /\ pc' = "done"
            /\ UNCHANGED <<type, parsed, track, trackErr>>
       ELSE IF type \notin DOMAIN tracktypes
       THEN /\ err' = [kind |-> "invalid track type"]
            /\ pc' = "done"
            /\ UNCHANGED <<type, parsed, track, trackErr>>
       ELSE /\ type' = tracktypes[type]
            /\ parsed' = TRUE
            /\ IF hastrack
               THEN /\ track' = tracknum
                    /\ pc' = "extract"
                    /\ UNCHANGED <<trackErr, err>>
               ELSE LET r == trackByLanguageAndType(mkv, languages, type', ignore)
                    IN /\ track' = r.id
                       /\ trackErr' = r.err
                       /\ err' = r.err
                       /\ pc' = IF r.err # Nil THEN "done" ELSE "extract"
    /\ UNCHANGED <<argVars, runVars, tmpfiles, tfi>>
    /\ UNCHANGED <<fmtVars, renVars, extVars>>

\* actionSingleTrack up to its call of extract: the checks of the command
\* line, the parsing of the file, the selection of the track.
ActionSingleTrack ==
    /\ pc = "start"
    /\ action = "singletrack"
    /\ IF nargs # 2
       THEN /\ err' = [kind |-> "need input and output files"]
            /\ pc' = "done"
            /\ UNCHANGED <<type, parsed, track, trackErr>>
       ELSE IF (~hastrack /\ ~haslang) \/ (hastrack /\ haslang)
       THEN /\ err' = [kind |-> "must specify track (--track) OR language (--lang)"]
            /\ pc' = "done"
            /\ UNCHANGED <<type, parsed, track, trackErr>>
       ELSE IF type \notin DOMAIN tracktypes
       THEN /\ err' = [kind |-> "invalid track type"]
            /\ pc' = "done"
            /\ UNCHANGED <<type, parsed, track, trackErr>>
       ELSE /\ type' = tracktypes[type]
            /\ parsed' = TRUE
            /\ IF hastrack
               THEN /\ track' = tracknum
                    /\ pc' = "extract"
                    /\ UNCHANGED <<trackErr, err>>
               ELSE LET r == trackByLanguageAndType(mkv, languages, type', ignore)
                    IN /\ track' = r.id
                       /\ trackErr' = r.err
                       /\ err' = r.err
                       /\ pc' = IF r.err # Nil THEN "done" ELSE "extract"
    /\ UNCHANGED <<argVars, runVars, tmpfiles, tfi>>
    /\ UNCHANGED <<fmtVars, renVars, extVars>>

\* The call of extract, by actionOnly with the number of --track and by
\* actionSingleTrack with the track it selected: the lookup, the temporary
\* file, mkvextract.
Extract ==
    /\ \/ pc = "start" /\ action = "only"
       \/ pc = "extract"
    /\ LET n == IF pc = "start" THEN tracknum ELSE track
           i == findTrack(mkv.Tracks, n, 1)
       IN /\ track' = n
          /\ IF i = 0
             THEN /\ err' = [kind |-> "track not found in file",
                             tracknum |-> n, file |-> mkv.FileName]
                  /\ UNCHANGED <<runVars, tmpfiles, tfi>>
                  /\ pc' = "remove"
             ELSE \E created \in BOOLEAN :
                     IF ~created
                     THEN /\ err' = [kind |-> "TempFile failed"]
                          /\ UNCHANGED <<runVars, tmpfiles, tfi>>
                          /\ pc' = "remove"
                     ELSE /\ tmpfiles' = tmpfiles \cup {TempName}
                          /\ \E ok \in RunOutcomes :
                                /\ Run(extractCommand(mkv, n, TempName), ok)
                                /\ err' = IF ok THEN err ELSE RunError("mkvextract")
                                /\ tfi' = IF ok
                                          THEN [language |-> mkv.Tracks[i].Language,
                                                fname |-> TempName]
                                          ELSE NoFileInfo
                                /\ pc' = IF ok THEN "submux" ELSE "remove"
    /\ parsed' = TRUE
    /\ UNCHANGED <<argVars, type, trackErr>>
    /\ UNCHANGED <<fmtVars, renVars, extVars>>

\* The call of submux, made when extract returned no error.
Submux ==
    /\ pc = "submux"
    /\ \E ok \in RunOutcomes :
          /\ Run(submuxCommand(mkv.FileName, OutFile, TRUE, <<>>), ok)
          /\ err' = IF ok THEN err ELSE RunError("mkvmerge")
    /\ pc' = "remove"
    /\ UNCHANGED <<argVars, type, parsed, track, trackErr, tmpfiles, tfi>>
    /\ UNCHANGED <<fmtVars, renVars, extVars>>

\* The deferred os.Remove(tfi.fname), run when the action returns.
Remove ==
    /\ pc = "remove"
    /\ tmpfiles' = tmpfiles \ {tfi.fname}
    /\ pc' = "done"
    /\ UNCHANGED <<argVars, type, parsed, runVars, track, trackErr, err, tfi>>
    /\ UNCHANGED <<fmtVars, renVars, extVars>>

Next ==
    \/ ActionSetDefaultByLang
    \/ ActionSetDefault
    \/ Setdefault
    \/ Adddefault
    \/ Extract
    \/ Submux
    \/ Remove

Spec == Init /\ [][Next]_vars

----------------------------------------------------------------------------
(* The actions with both runners, on files whose tracks carry any flags. *)

RunTrackShapes ==
    {[Type |-> typeSubtitle, Language |-> "eng", TrackName |-> "English"],
     [Type |-> typeSubtitle, Language |-> "fra", TrackName |-> "English"],
     [Type |-> "audio", Language |-> "eng", TrackName |-> "English"]}

RunTrackLists ==
    UNION {{[i \in 1..n |-> [ID |-> i - 1, Type |-> c[i].Type,
                             Language |-> c[i].Language,
                             TrackName |-> c[i].TrackName]] :
                c \in [1..n -> RunTrackShapes]} : n \in 0..MaxRunTracks}

RunTypes == {"s", "audio", "x"}

InitRun ==
    /\ ExtIdle
    /\ pc = "start"
    /\ mkv \in {[FileName |-> "in.mkv", Tracks |-> t] : t \in RunTrackLists}
    /\ dryrun \in BOOLEAN
    /\ \/ /\ action = "setdefault"
          /\ nargs = 2 /\ hastrack = TRUE /\ haslang = FALSE /\ type = "subtitles"
          /\ tracknum \in 0..MaxRunTracks
          /\ languages = <<>>
          /\ flags \in [DOMAIN mkv.Tracks -> BOOLEAN]
       \/ /\ action = "setdefaultbylang"
          /\ nargs = 2 /\ hastrack = FALSE /\ haslang = TRUE /\ type = "subtitles"
          /\ tracknum = 0
          /\ languages \in {<<"eng">>, <<"fra", "eng">>}
          /\ flags \in [DOMAIN mkv.Tracks -> BOOLEAN]
       \/ /\ action = "singletrack"
          /\ nargs \in {1, 2}
          /\ hastrack \in BOOLEAN
          /\ haslang \in BOOLEAN
          /\ type \in RunTypes
          /\ tracknum \in IF hastrack THEN 0..MaxRunTracks ELSE {0}
          /\ languages = IF haslang THEN <<"eng">> ELSE <<>>
          /\ flags = [i \in DOMAIN mkv.Tracks |-> FALSE]
    /\ ignore = <<>>
    /\ track = 0
    /\ trackErr = Nil
    /\ err = Nil
    /\ cmds = <<>>
    /\ tmpfiles = {}
    /\ tfi = NoFileInfo
    /\ parsed = FALSE
    /\ logged = <<>>
    /\ executed = <<>>
    /\ FmtIdle
    /\ rpc = "idle" /\ fname = "" /\ printed = <<>> /\ renames = <<>> /\ rerr = Nil

NextRun ==
    \/ ActionSetDefaultByLang
    \/ ActionSetDefault
    \/ ActionSingleTrack
    \/ Setdefault
    \/ Adddefault
    \/ Extract
    \/ Submux
    \/ Remove

SpecRun == InitRun /\ [][NextRun]_vars

----------------------------------------------------------------------------
(* The mask renderer: format.                                              *)

\* The failed match.
NoMatch ==
    [ok |-> FALSE, start |-> 0, end |-> 0, text |-> <<>>, sizespec |-> <<>>,
     name |-> <<>>]

\* The first position from i on whose character is not in set S.
RECURSIVE runEnd(_, _, _)
runEnd(m, i, S) ==
    IF i <= Len(m) /\ m[i] \in S THEN runEnd(m, i + 1, S) ELSE i

\* A mutant of matchAt: the name may hold upper-case letters too.
matchAtAnyLetter(m, i) ==
    LET at(j) == IF j <= Len(m) THEN m[j] ELSE ""
        a == i + 1
        b == IF at(a) = "-" THEN a + 1 ELSE a
        c == runEnd(m, b, Digits)
        w == IF c > b THEN c ELSE a
        d == IF at(w) = "." THEN runEnd(m, w + 1, Digits) ELSE w
        p == IF d > w + 1 THEN d ELSE w
        e == runEnd(m, p + 1, Letters)
    IN IF i <= Len(m) /\ m[i] = "%" /\ at(p) = "{" /\ e > p + 1 /\ at(e) = "}"
       THEN [ok |-> TRUE, start |-> i, end |-> e, text |-> SubSeq(m, i, e),
             sizespec |-> SubSeq(m, a, p - 1), name |-> SubSeq(m, p + 1, e - 1)]
       ELSE NoMatch

\* The match of %((?:-?[\d]+)?(?:\.\d+)?){([a-z]+)} that starts at position i.
matchAt(m, i) ==
    LET at(j) == IF j <= Len(m) THEN m[j] ELSE ""
        a == i + 1
        b == IF at(a) = "-" THEN a + 1 ELSE a
        c == runEnd(m, b, Digits)
        w == IF c > b THEN c ELSE a
        d == IF at(w) = "." THEN runEnd(m, w + 1, Digits) ELSE w
        p == IF d > w + 1 THEN d ELSE w
        e == runEnd(m, p + 1, LowerLetters)
    IN IF i <= Len(m) /\ m[i] = "%" /\ at(p) = "{" /\ e > p + 1 /\ at(e) = "}"
       THEN [ok |-> TRUE, start |-> i, end |-> e, text |-> SubSeq(m, i, e),
             sizespec |-> SubSeq(m, a, p - 1), name |-> SubSeq(m, p + 1, e - 1)]
       ELSE NoMatch

\* The leftmost match that starts at position i or later.
RECURSIVE nextMatch(_, _)
nextMatch(m, i) ==
    IF i > Len(m) THEN NoMatch
    ELSE IF matchAt(m, i).ok THEN matchAt(m, i)
    ELSE nextMatch(m, i + 1)

\* The number a sequence of digits writes; 0 for the empty sequence.
RECURSIVE parsenum(_)
parsenum(ds) ==
    IF ds = <<>> THEN 0
    ELSE 10 * parsenum(SubSeq(ds, 1, Len(ds) - 1)) + DigitValue[ds[Len(ds)]]

\* The decimal digits of n >= 0.
RECURSIVE itoa(_)
itoa(n) ==
    IF n < 10 THEN <<DigitChar[n]>>
    ELSE itoa(n \div 10) \o <<DigitChar[n % 10]>>

\* n copies of character c.
padding(n, c) == [i \in 1..n |-> c]

\* fmt's reading of the size specifier between % and the verb: the flags - and
\* 0, the width, the precision.
sizeFlags(ss) ==
    LET minus == ss # <<>> /\ ss[1] = "-"
        a == IF minus THEN 2 ELSE 1
        z == runEnd(ss, a, {"0"})
        c == runEnd(ss, z, Digits)
    IN [minus |-> minus,
        zero |-> z > a /\ ~minus,
        widPresent |-> c > z,
        wid |-> parsenum(SubSeq(ss, z, c - 1)),
        precPresent |-> c <= Len(ss),
        prec |-> parsenum(SubSeq(ss, c + 1, Len(ss)))]

\* fmt's padding of text b to the width.
pad(f, b) ==
    IF ~f.widPresent \/ f.wid <= Len(b) THEN b
    ELSE IF f.minus THEN b \o padding(f.wid - Len(b), " ")
    ELSE padding(f.wid - Len(b), IF f.zero THEN "0" ELSE " ") \o b

\* A mutant of sprintfD: the size specifier is not read.
sprintfDNoSizespec(ss, n) == itoa(n)

\* fmt.Sprintf("%"+sizespec+"d", n) for n > 0: the precision is the least
\* number of digits; without a precision the flag 0 makes the width that
\* number; what is left of the width is padded with spaces.
sprintfD(ss, n) ==
    LET f == sizeFlags(ss)
        prec == IF f.precPresent THEN f.prec
                ELSE IF f.zero /\ f.widPresent THEN f.wid ELSE 0
        ds == itoa(n)
        body == IF prec > Len(ds) THEN padding(prec - Len(ds), "0") \o ds ELSE ds
    IN pad([f EXCEPT !.zero = FALSE], body)

\* fmt.Sprintf("%"+sizespec+"s", val): the precision cuts the string, the
\* width pads it (with zeros under the flag 0, as the fmt of go 1.16 does).
sprintfS(ss, val) ==
    LET f == sizeFlags(ss)
        cut == IF f.precPresent /\ f.prec < Len(val) THEN SubSeq(val, 1, f.prec)
               ELSE val
    IN pad(f, cut)

\* A mutant of titleCase: properTitle's rule, the words a, an, on, the, to are
\* left as they are and the other words get an upper-case first letter.
titleCaseSmallWords(str) ==
    LET wordStart(i) == i = 1 \/ str[i - 1] = " "
        wordFrom(i) == SubSeq(str, i, runEnd(str, i, Letters \cup Digits) - 1)
        startOf(i) == CHOOSE j \in 1..i :
                         /\ wordStart(j)
                         /\ \A k \in j..i : str[k] # " "
        small(i) == wordFrom(startOf(i)) \in
                       {<<"a">>, <<"a","n">>, <<"o","n">>, <<"t","h","e">>, <<"t","o">>}
    IN [i \in 1..Len(str) |->
          IF str[i] = " " \/ small(i) THEN str[i]
          ELSE IF wordStart(i) /\ str[i] \in DOMAIN UpperOf THEN UpperOf[str[i]]
          ELSE str[i]]

\* A mutant of titleCase: only the first letter of the string is capitalised.
titleCaseFirstOnly(str) ==
    [i \in 1..Len(str) |->
        IF i = 1 /\ str[i] \in DOMAIN UpperOf THEN UpperOf[str[i]] ELSE str[i]]

\* cases.Title(language.English).String(str): in every word the first letter
\* is made upper case and the letters after it lower case.
titleCase(str) ==
    [i \in 1..Len(str) |->
        IF str[i] \notin Letters THEN str[i]
        ELSE IF i = 1 \/ str[i - 1] \notin (Letters \cup Digits)
             THEN (IF str[i] \in DOMAIN UpperOf THEN UpperOf[str[i]] ELSE str[i])
             ELSE (IF str[i] \in DOMAIN LowerOf THEN LowerOf[str[i]] ELSE str[i])]

ErrorText == <<"*","E","R","R","O","R","*">>

\* The function format hands to ReplaceAllStringFunc, called on one match:
\* the text that replaces the match and what it appends to errlist.
replaceFunc(match, flds) ==
    LET tag == titleCase(match.name)
        keys == {k \in DOMAIN flds : Chars(k) = tag}
        unable == [text |-> ErrorText,
                   errs |-> <<[kind |-> "Unable to parse data for", token |-> match.text]>>]
    IN IF keys = {} THEN unable
       ELSE LET i == flds[CHOOSE k \in keys : TRUE]
            IN IF i.type = "string"
               THEN IF i.str = "" THEN unable
                    ELSE [text |-> sprintfS(match.sizespec,
                                            IF tag = Chars("Title")
                                            THEN titleCase(Chars(i.str))
                                            ELSE Chars(i.str)),
                          errs |-> <<>>]
               ELSE IF i.type = "int"
               THEN IF i.int <= 0 THEN unable
                    ELSE [text |-> sprintfD(match.sizespec, i.int), errs |-> <<>>]
               \* The arguments of the message are the match, printed as its
               \* type, and the type switch's value, printed quoted: the text
               \* of the token is not in the message.
               ELSE [text |-> ErrorText,
                     errs |-> <<[kind |-> "Internal error: Unknown type",
                                 type |-> "string", value |-> i.bool]>>]

----------------------------------------------------------------------------
(* The inputs of a format call. *)

TokTitle == <<"%","{","t","i","t","l","e","}">>
TokSeason == <<"%","{","s","e","a","s","o","n","}">>
TokSeason022 == <<"%","0","2",".","2","{","s","e","a","s","o","n","}">>
TokEpisode022 == <<"%","0","2",".","2","{","e","p","i","s","o","d","e","}">>
TokYear == <<"%","{","y","e","a","r","}">>
TokQuality == <<"%","{","q","u","a","l","i","t","y","}">>
TokBad == <<"%","{","b","a","d","}">>
TokProper == <<"%","{","p","r","o","p","e","r","}">>
TokSeason03 == <<"%","0","3","{","s","e","a","s","o","n","}">>
TokTitleLeft52 == <<"%","-","5",".","2","{","t","i","t","l","e","}">>
\* The documentation's example of a width without a precision.
TokTitleLeft20 == <<"%","-","2","0","{","t","i","t","l","e","}">>
LitS == <<" ","S">>
LitE == <<"E">>
LitSpace == <<" ">>
\* Text that looks like a token and does not match the pattern: no closing
\* brace, a name with an upper-case letter.
TokUnterminated == <<"%","{","t","i","t","l","e">>
TokEpisodeName == <<"%","{","e","p","i","s","o","d","e","N","a","m","e","}">>

Tokens == {TokTitle, TokSeason, TokSeason022, TokEpisode022, TokYear, TokQuality,
           TokBad, TokProper, TokSeason03, TokTitleLeft52, TokTitleLeft20}
Literals == {LitS, LitE}
Pieces == Tokens \cup Literals

\* The concatenation of a list of pieces.
RECURSIVE Flatten(_)
Flatten(ps) == IF ps = <<>> THEN <<>> ELSE Head(ps) \o Flatten(Tail(ps))

\* The mask of the documentation's example and the mask of a test.
ExampleParts == <<TokTitle, LitS, TokSeason022, LitE, TokEpisode022>>
TestParts == <<TokTitle, LitSpace, TokYear>>

NearTokens == {TokUnterminated, TokEpisodeName}
NearTokenParts ==
    UNION {{<<p>>, <<p, TokTitle>>, <<TokYear, p>>, <<LitS, p>>} : p \in NearTokens}

PartLists ==
    UNION {[1..n -> Pieces] : n \in 0..MaxParts}
    \cup {ExampleParts, TestParts}
    \cup NearTokenParts

StringValue(str) == [type |-> "string", str |-> str]
IntValue(n) == [type |-> "int", int |-> n]
BoolValue(b) == [type |-> "bool", bool |-> b]

\* A film has no season and no episode, an episode of a series has both.
SeasonsEpisodes == {<<0, 0>>, <<1, 2>>, <<12, 2>>}

Titles == {"", "foo", "the bad title", "a bad title that makes one of a kind"}

\* The map of a file name in which the parser finds nothing.
NoFieldSet ==
    [Title |-> StringValue(""), Season |-> IntValue(0), Episode |-> IntValue(0),
     Year |-> IntValue(0), Quality |-> StringValue(""), Proper |-> BoolValue(FALSE)]

\* What structs.Map gives for the parsed file name: of the fields of the parsed
\* name, three integers, two strings and a boolean.
FieldMaps ==
    {[Title |-> StringValue(t), Season |-> IntValue(se[1]), Episode |-> IntValue(se[2]),
      Year |-> IntValue(y), Quality |-> StringValue("HDTV"), Proper |-> BoolValue(b)] :
        t \in Titles, se \in SeasonsEpisodes, y \in {0, 2022}, b \in BOOLEAN}
    \cup {NoFieldSet}

SelIdle ==
    /\ pc = "idle" /\ action = "format" /\ mkv = [FileName |-> "", Tracks |-> <<>>]
    /\ languages = <<>> /\ ignore = <<>> /\ tracknum = 0 /\ track = 0
    /\ trackErr = Nil /\ err = Nil /\ cmds = <<>> /\ tmpfiles = {}
    /\ tfi = NoFileInfo
    /\ nargs = 0 /\ hastrack = FALSE /\ haslang = FALSE /\ type = ""
    /\ parsed = FALSE
    /\ flags = <<>> /\ logged = <<>> /\ executed = <<>>

InitFormat ==
    /\ ExtIdle
    /\ SelIdle
    /\ RenIdle
    /\ fpc = "start"
    /\ parts \in PartLists
    /\ mask = Flatten(parts)
    /\ fields \in FieldMaps
    /\ pos = 1
    /\ formatted = <<>>
    /\ errlist = <<>>
    /\ fret = <<>>
    /\ ferr = Nil

\* The file name is parsed; the parser returns the fields or an error.
FormatParse ==
    /\ fpc = "start"
    /\ \E ok \in BOOLEAN :
          IF ok
          THEN fpc' = "replace" /\ ferr' = ferr
          ELSE fpc' = "done" /\ ferr' = [kind |-> "Parse failed"]
    /\ UNCHANGED <<parts, mask, fields, pos, formatted, errlist, fret>>
    /\ UNCHANGED <<selVars, renVars, extVars>>

\* A mutant of FormatReplace: only the first error is kept.
FormatReplaceFirstErrorOnly ==
    /\ fpc = "replace"
    /\ LET mt == nextMatch(mask, pos)
       IN /\ mt.ok
          /\ LET r == replaceFunc(mt, fields)
             IN /\ formatted' = formatted \o SubSeq(mask, pos, mt.start - 1) \o r.text
                /\ errlist' = IF errlist = <<>> THEN r.errs ELSE errlist
          /\ pos' = mt.end + 1
    /\ UNCHANGED <<fpc, parts, mask, fields, fret, ferr>>
    /\ UNCHANGED <<selVars, renVars, extVars>>

\* ReplaceAllStringFunc finds the next match, copies the text before it and
\* appends what the function returns for the match.
FormatReplace ==
    /\ fpc = "replace"
    /\ LET mt == nextMatch(mask, pos)
       IN /\ mt.ok
          /\ LET r == replaceFunc(mt, fields)
             IN /\ formatted' = formatted \o SubSeq(mask, pos, mt.start - 1) \o r.text
                /\ errlist' = errlist \o r.errs
          /\ pos' = mt.end + 1
    /\ UNCHANGED <<fpc, parts, mask, fields, fret, ferr>>
    /\ UNCHANGED <<selVars, renVars, extVars>>

\* A mutant of FormatReturn: the text after the last match is dropped.
FormatReturnNoTail ==
    /\ fpc = "replace"
    /\ ~nextMatch(mask, pos).ok
    /\ formatted' = formatted
    /\ pos' = Len(mask) + 1
    /\ IF errlist # <<>>
       THEN fret' = <<>> /\ ferr' = [kind |-> "format", msgs |-> errlist]
       ELSE fret' = formatted' /\ ferr' = Nil
    /\ fpc' = "done"
    /\ UNCHANGED <<parts, mask, fields, errlist>>
    /\ UNCHANGED <<selVars, renVars, extVars>>

\* No match is left: the rest of the mask is copied, and format returns the
\* error made of errlist, or the string.
FormatReturn ==
    /\ fpc = "replace"
    /\ ~nextMatch(mask, pos).ok
    /\ formatted' = formatted \o SubSeq(mask, pos, Len(mask))
    /\ pos' = Len(mask) + 1
    /\ IF errlist # <<>>
       THEN fret' = <<>> /\ ferr' = [kind |-> "format", msgs |-> errlist]
       ELSE fret' = formatted' /\ ferr' = Nil
    /\ fpc' = "done"
    /\ UNCHANGED <<parts, mask, fields, errlist>>
    /\ UNCHANGED <<selVars, renVars, extVars>>

NextFormat ==
    \/ FormatParse
    \/ FormatReplace
    \/ FormatReturn

SpecFormat == InitFormat /\ [][NextFormat]_vars

----------------------------------------------------------------------------
(* rename. *)

\* filepath.Split: the directory of a path, up to and with its last slash.
RECURSIVE splitDir(_)
splitDir(path) ==
    IF path = <<>> \/ path[Len(path)] = "/" THEN path
    ELSE splitDir(SubSeq(path, 1, Len(path) - 1))

\* filepath.Join of a directory that Split returned and a name.
joinPath(dir, name) ==
    IF dir = <<>> THEN name
    ELSE IF name = <<>> THEN SubSeq(dir, 1, Len(dir) - 1)
    ELSE dir \o name

\* The files given to rename: the names of two tests, one of them in a
\* directory too, and a name that holds the text of a token.
FileNames ==
    {"Series Title S01E02 [1080p].mkv",
     "a bad title that makes one of a kind 2022.mkv",
     "tv/Series Title S01E02 [1080p].mkv",
     "%{year}.mkv"}

\* What the parser makes of the file names of the tests.
MetaOfSeries ==
    [Title |-> StringValue("Series Title"), Season |-> IntValue(1),
     Episode |-> IntValue(2), Year |-> IntValue(0), Quality |-> StringValue(""),
     Proper |-> BoolValue(FALSE)]
MetaOfFilm ==
    [Title |-> StringValue("a bad title that makes one of a kind"), Season |-> IntValue(0),
     Episode |-> IntValue(0), Year |-> IntValue(2022), Quality |-> StringValue(""),
     Proper |-> BoolValue(FALSE)]
MetaOf ==
    ("Series Title S01E02 [1080p].mkv" :> MetaOfSeries)
    @@ ("tv/Series Title S01E02 [1080p].mkv" :> MetaOfSeries)
    @@ ("a bad title that makes one of a kind 2022.mkv" :> MetaOfFilm)

\* The fields the parser returns for a file name: those of the table for the
\* names of the tests, any fields for another text.
parsedFields(name) ==
    IF name \in DOMAIN MetaOf THEN {MetaOf[name]} ELSE FieldMaps

\* The masks given to rename with --format.
RenameMasks ==
    {<<p>> : p \in Pieces} \cup {ExampleParts, TestParts, <<TokBad, TokYear>>}

InitRename ==
    /\ ExtIdle
    /\ SelIdle
    /\ fpc = "idle" /\ mask = <<>> /\ fields = <<>> /\ pos = 0
    /\ formatted = <<>> /\ errlist = <<>> /\ fret = <<>> /\ ferr = Nil
    /\ parts \in RenameMasks
    /\ rpc = "start"
    /\ fname \in FileNames
    /\ dryrun \in BOOLEAN
    /\ printed = <<>>
    /\ renames = <<>>
    /\ rerr = Nil

\* rename calls format(fname, mask), and format is func format(mask, fname):
\* the file name arrives as format's mask and the mask as its file name, so
\* the fields are what the parser makes of the text of the mask.
RenameCall ==
    /\ rpc = "start"
    /\ rpc' = "format"
    /\ fpc' = "start"
    /\ mask' = Chars(fname)
    /\ fields' \in FieldMaps
    /\ pos' = 1
    /\ formatted' = <<>> /\ errlist' = <<>> /\ fret' = <<>> /\ ferr' = Nil
    /\ UNCHANGED <<parts, fname, dryrun, printed, renames, rerr>>
    /\ UNCHANGED <<selVars, extVars>>

\* format has returned: rename returns its error, or prints the old and the
\* new name and, unless --dry-run is given, calls os.Rename.
RenameReturn ==
    /\ rpc = "format"
    /\ fpc = "done"
    /\ rpc' = "done"
    /\ IF ferr # Nil
       THEN rerr' = ferr /\ UNCHANGED <<printed, renames>>
       ELSE LET newfile == joinPath(splitDir(Chars(fname)), fret)
                line == [old |-> Chars(fname), new |-> newfile]
            IN /\ printed' = Append(printed, line)
               /\ IF dryrun
                  THEN rerr' = Nil /\ UNCHANGED renames
                  ELSE \E ok \in BOOLEAN :
                          /\ renames' = Append(renames, line)
                          /\ rerr' = IF ok THEN Nil ELSE [kind |-> "os.Rename failed"]
    /\ UNCHANGED <<fname, dryrun>>
    /\ UNCHANGED <<selVars, fmtVars, extVars>>

NextRename ==
    \/ RenameCall
    \/ FormatParse
    \/ FormatReplace
    \/ FormatReturn
    \/ RenameReturn

SpecRename == InitRename /\ [][NextRename]_vars

----------------------------------------------------------------------------
(* print, and print followed by rename with the same mask and file. *)

InitPrint ==
    /\ ExtIdle
    /\ SelIdle
    /\ fpc = "idle" /\ mask = <<>> /\ fields = <<>> /\ pos = 0
    /\ formatted = <<>> /\ errlist = <<>> /\ fret = <<>> /\ ferr = Nil
    /\ parts \in RenameMasks
    /\ rpc = "print"
    /\ fname \in FileNames
    /\ dryrun \in BOOLEAN
    /\ printed = <<>>
    /\ renames = <<>>
    /\ rerr = Nil

\* actionPrint calls format(mask, fname) for the file.
PrintCall ==
    /\ rpc = "print"
    /\ rpc' = "printing"
    /\ fpc' = "start"
    /\ mask' = Flatten(parts)
    /\ fields' \in parsedFields(fname)
    /\ pos' = 1
    /\ formatted' = <<>> /\ errlist' = <<>> /\ fret' = <<>> /\ ferr' = Nil
    /\ UNCHANGED <<parts, fname, dryrun, printed, renames, rerr>>
    /\ UNCHANGED <<selVars, extVars>>

\* format has returned to actionPrint: the error is kept for the action's
\* result, or the string is printed; the rename command is run next.
PrintReturn ==
    /\ rpc = "printing"
    /\ fpc = "done"
    /\ rpc' = "start"
    /\ IF ferr # Nil
       THEN rerr' = ferr /\ UNCHANGED printed
       ELSE rerr' = Nil /\ printed' = Append(printed, [out |-> fret])
    /\ UNCHANGED <<fname, dryrun, renames>>
    /\ UNCHANGED <<selVars, fmtVars, extVars>>

NextPrint ==
    \/ PrintCall
    \/ PrintReturn
    \/ NextRename

SpecPrint == InitPrint /\ [][NextPrint]_vars

----------------------------------------------------------------------------
(* Calls of format and of trackByLanguage that run concurrently, one call  *)
(* per goroutine. Every variable of a call is a local of the call: the     *)
(* package has no variable that format or trackByLanguage reads or writes. *)

\* format as a function of the mask and the parsed fields, from position p on
\* with the output and the errors so far.
RECURSIVE formatFrom(_, _, _, _, _)
formatFrom(m, flds, p, out, errs) ==
    LET mt == nextMatch(m, p)
    IN IF mt.ok
       THEN LET r == replaceFunc(mt, flds)
            IN formatFrom(m, flds, mt.end + 1,
                          out \o SubSeq(m, p, mt.start - 1) \o r.text,
                          errs \o r.errs)
       ELSE IF errs # <<>>
            THEN [ret |-> <<>>, err |-> [kind |-> "format", msgs |-> errs]]
            ELSE [ret |-> out \o SubSeq(m, p, Len(m)), err |-> Nil]

format(m, flds) == formatFrom(m, flds, 1, <<>>, <<>>)

Callers == {1, 2}

ConcMasks == {ExampleParts, TestParts, <<TokBad, TokYear>>, <<TokProper>>, <<LitS>>}

ConcFields ==
    {[Title |-> StringValue("foo"), Season |-> IntValue(1), Episode |-> IntValue(2),
      Year |-> IntValue(2022), Quality |-> StringValue("HDTV"),
      Proper |-> BoolValue(FALSE)],
     [Title |-> StringValue("a bad title that makes one of a kind"),
      Season |-> IntValue(0), Episode |-> IntValue(0), Year |-> IntValue(0),
      Quality |-> StringValue("HDTV"), Proper |-> BoolValue(TRUE)],
     NoFieldSet}

ConcTrackLists ==
    {<<>>,
     <<[ID |-> 0, Type |-> typeSubtitle, Language |-> "", TrackName |-> "English"]>>,
     <<[ID |-> 0, Type |-> "audio", Language |-> "eng", TrackName |-> "English"],
       [ID |-> 1, Type |-> typeSubtitle, Language |-> "fra", TrackName |-> "English"],
       [ID |-> 2, Type |-> typeSubtitle, Language |-> "eng",
        TrackName |-> "English (Forced)"],
       [ID |-> 3, Type |-> typeSubtitle, Language |-> "eng", TrackName |-> "English"]>>}

ConcLanguages == {<<"eng">>, <<"fra", "eng">>, <<"default">>}

\* The locals of a call of format when it starts.
formatCall(m, flds) ==
    [fn |-> "format", pc |-> "start", mask |-> m, fields |-> flds, pos |-> 1,
     formatted |-> <<>>, errlist |-> <<>>, ret |-> <<>>, err |-> Nil]

\* The locals of a call of trackByLanguage when it starts: l and i are the
\* positions of the two loops.
trackCall(m, langs, ign) ==
    [fn |-> "trackByLanguage", pc |-> "loop", mkv |-> m, languages |-> langs,
     ignore |-> ign, l |-> 1, i |-> 1, ret |-> 0, err |-> Nil]

ConcCalls ==
    {formatCall(Flatten(ps), f) : ps \in ConcMasks, f \in ConcFields}
    \cup {trackCall([FileName |-> "in.mkv", Tracks |-> t], ls, ign) :
              t \in ConcTrackLists, ls \in ConcLanguages,
              ign \in {<<>>, <<"forced">>}}

InitConc ==
    /\ SelIdle
    /\ FmtIdle
    /\ RenIdle
    /\ calls \in [Callers -> ConcCalls]
    /\ BatchIdle
    /\ PipeIdle
    /\ ParserIdle

\* The call of caller c parses the file name.
ConcFormatParse(c) ==
    /\ calls[c].fn = "format"
    /\ calls[c].pc = "start"
    /\ \E ok \in BOOLEAN :
          calls' = [calls EXCEPT ![c] =
                      IF ok THEN [@ EXCEPT !.pc = "replace"]
                      ELSE [@ EXCEPT !.pc = "done",
                                     !.err = [kind |-> "Parse failed"]]]
    /\ UNCHANGED <<selVars, fmtVars, renVars, batchVars, pipeVars, parserVars>>

\* A mutant of ConcFormatReplace: the error accumulator is one variable of the
\* package, so an error is seen by every running call of format.
ConcFormatReplaceSharedErrlist(c) ==
    /\ calls[c].fn = "format"
    /\ calls[c].pc = "replace"
    /\ LET mt == nextMatch(calls[c].mask, calls[c].pos)
       IN /\ mt.ok
          /\ LET r == replaceFunc(mt, calls[c].fields)
                 shared(d) == IF calls[d].fn = "format" /\ calls[d].pc # "done"
                              THEN [calls[d] EXCEPT !.errlist = @ \o r.errs]
                              ELSE calls[d]
             IN calls' = [d \in Callers |->
                            IF d = c
                            THEN [shared(d) EXCEPT
                                    !.formatted = @ \o SubSeq(calls[c].mask, calls[c].pos,
                                                              mt.start - 1) \o r.text,
                                    !.pos = mt.end + 1]
                            ELSE shared(d)]
    /\ UNCHANGED <<selVars, fmtVars, renVars, batchVars, pipeVars, parserVars>>

\* The call of caller c replaces its next match.
ConcFormatReplace(c) ==
    /\ calls[c].fn = "format"
    /\ calls[c].pc = "replace"
    /\ LET mt == nextMatch(calls[c].mask, calls[c].pos)
       IN /\ mt.ok
          /\ LET r == replaceFunc(mt, calls[c].fields)
             IN calls' = [calls EXCEPT
                            ![c].formatted = @ \o SubSeq(calls[c].mask, calls[c].pos,
                                                         mt.start - 1) \o r.text,
                            ![c].errlist = @ \o r.errs,
                            ![c].pos = mt.end + 1]
    /\ UNCHANGED <<selVars, fmtVars, renVars, batchVars, pipeVars, parserVars>>

\* The call of caller c has no match left and returns.
ConcFormatReturn(c) ==
    /\ calls[c].fn = "format"
    /\ calls[c].pc = "replace"
    /\ ~nextMatch(calls[c].mask, calls[c].pos).ok
    /\ LET out == calls[c].formatted
                     \o SubSeq(calls[c].mask, calls[c].pos, Len(calls[c].mask))
       IN calls' = [calls EXCEPT
                      ![c].formatted = out,
                      ![c].pos = Len(calls[c].mask) + 1,
                      ![c].ret = IF calls[c].errlist # <<>> THEN <<>> ELSE out,
                      ![c].err = IF calls[c].errlist # <<>>
                                 THEN [kind |-> "format", msgs |-> calls[c].errlist]
                                 ELSE Nil,
                      ![c].pc = "done"]
    /\ UNCHANGED <<selVars, fmtVars, renVars, batchVars, pipeVars, parserVars>>

\* One step of the loops of trackByLanguage in the call of caller c: the
\* languages are exhausted, or the tracks are and the next language is taken,
\* or the track at hand is returned or passed over.
ConcTrackStep(c) ==
    /\ calls[c].fn = "trackByLanguage"
    /\ calls[c].pc = "loop"
    /\ LET k == calls[c]
           tracks == k.mkv.Tracks
       IN calls' = [calls EXCEPT ![c] =
            IF k.l > Len(k.languages)
            THEN [k EXCEPT !.pc = "done", !.ret = 0,
                           !.err = [kind |-> "no track with language(s)",
                                    languages |-> k.languages]]
            ELSE IF k.i > Len(tracks)
            THEN [k EXCEPT !.l = @ + 1, !.i = 1]
            ELSE IF \/ tracks[k.i].Type # typeSubtitle
                    \/ tracks[k.i].Language # effectiveLang(k.languages[k.l])
                    \/ stringInSlice(tracks[k.i].TrackName, k.ignore)
            THEN [k EXCEPT !.i = @ + 1]
            ELSE [k EXCEPT !.pc = "done", !.ret = tracks[k.i].ID]]
    /\ UNCHANGED <<selVars, fmtVars, renVars, batchVars, pipeVars, parserVars>>

NextConc ==
    \E c \in Callers :
        \/ ConcFormatParse(c)
        \/ ConcFormatReplace(c)
        \/ ConcFormatReturn(c)
        \/ ConcTrackStep(c)

SpecConc == InitConc /\ [][NextConc]_vars

----------------------------------------------------------------------------
(* The actions that take several files: actionPrint, actionRename,         *)
(* actionSetDefault, actionSetDefaultByLang. What the action calls for one *)
(* file (format, rename, trackByLanguageAndType and setdefault) is modelled *)
(* above; here a file carries whether os.Stat finds it, whether mkvmerge   *)
(* identifies it, and whether the call made for it returns an error.       *)

BatchActions == {"print", "rename", "setdefault", "setdefaultbylang"}

FileNamesAt == <<"a.mkv", "b.mkv", "c.mkv", "d.mkv", "e.mkv">>

FileLists ==
    UNION {{[i \in 1..n |-> [name |-> FileNamesAt[i], readable |-> a[i][1],
                             parses |-> a[i][2], fails |-> a[i][3]]] :
               a \in [1..n -> BOOLEAN \X BOOLEAN \X BOOLEAN]} : n \in 0..MaxFiles}

\* readable: the files of the list that os.Stat finds, in order.
readable(fnames) == SelectSeq(fnames, LAMBDA f : f.readable)

\* errorFromSlice: nil for the empty list, else one error of all the lines.
errorFromSlice(msgs) ==
    IF msgs # <<>> THEN [kind |-> "errors", lines |-> msgs] ELSE Nil

InitBatch ==
    /\ SelIdle
    /\ FmtIdle
    /\ RenIdle
    /\ ConIdle
    /\ PipeIdle
    /\ ParserIdle
    /\ bpc = "start"
    /\ baction \in BatchActions
    /\ files \in FileLists
    /\ todo = <<>>
    /\ fidx = 0
    /\ errmsgs = <<>>
    /\ processed = <<>>
    /\ bret = Nil

\* checkMultiArgs, and the list the loop ranges over: every argument for
\* print, the readable files for the other actions.
BatchStart ==
    /\ bpc = "start"
    /\ IF Len(files) < 1
       THEN /\ bret' = [kind |-> "no files to process"]
            /\ bpc' = "done"
            /\ UNCHANGED <<todo, fidx>>
       ELSE /\ todo' = IF baction = "print" THEN files ELSE readable(files)
            /\ fidx' = 1
            /\ bpc' = "loop"
            /\ UNCHANGED bret
    /\ UNCHANGED <<baction, files, errmsgs, processed>>
    /\ UNCHANGED <<selVars, fmtVars, renVars, conVars, pipeVars, parserVars>>

\* One pass of the loop. setdefault and setdefaultbylang first call
\* mustParseFile, which ends the program with log.Fatalf when mkvmerge fails
\* on the file or its output cannot be decoded. Then the call for the file is
\* made, and its error, if any, is appended to errmsgs with the file's name.
BatchFile ==
    /\ bpc = "loop"
    /\ fidx <= Len(todo)
    /\ LET f == todo[fidx]
       IN IF baction \in {"setdefault", "setdefaultbylang"} /\ ~f.parses
          THEN /\ bpc' = "exited"
               /\ UNCHANGED <<fidx, errmsgs, processed>>
          ELSE /\ processed' = Append(processed, f.name)
               /\ errmsgs' = IF f.fails
                             THEN Append(errmsgs, [fname |-> f.name])
                             ELSE errmsgs
               /\ fidx' = fidx + 1
               /\ UNCHANGED bpc
    /\ UNCHANGED <<baction, files, todo, bret>>
    /\ UNCHANGED <<selVars, fmtVars, renVars, conVars, pipeVars, parserVars>>

\* The loop has ended: the action returns errorFromSlice(errmsgs).
BatchReturn ==
    /\ bpc = "loop"
    /\ fidx > Len(todo)
    /\ bret' = errorFromSlice(errmsgs)
    /\ bpc' = "done"
    /\ UNCHANGED <<baction, files, todo, fidx, errmsgs, processed>>
    /\ UNCHANGED <<selVars, fmtVars, renVars, conVars, pipeVars, parserVars>>

NextBatch ==
    \/ BatchStart
    \/ BatchFile
    \/ BatchReturn

SpecBatch == InitBatch /\ [][NextBatch]_vars

----------------------------------------------------------------------------
(* runCommand.run after cmd.Start: the parent copies the child's stdout    *)
(* until it is closed, then the child's stderr, then waits for the child.  *)
(* The child writes its chunks in an order of its own; a write to a full   *)
(* pipe blocks, a read from an empty pipe blocks until the child has       *)
(* closed it, which it does by ending.                                     *)

WriteLists == UNION {[1..n -> {"out", "err"}] : n \in 0..MaxWrites}

InitPipe ==
    /\ SelIdle
    /\ FmtIdle
    /\ RenIdle
    /\ ConIdle
    /\ BatchIdle
    /\ ParserIdle
    /\ ppc = "copyout"
    /\ cpc = "running"
    /\ towrite \in WriteLists
    /\ outpipe = 0
    /\ errpipe = 0

\* The child writes its next chunk, to the pipe that has room for it.
ChildWrite ==
    /\ cpc = "running"
    /\ towrite # <<>>
    /\ IF Head(towrite) = "out"
       THEN outpipe < PipeCap /\ outpipe' = outpipe + 1 /\ UNCHANGED errpipe
       ELSE errpipe < PipeCap /\ errpipe' = errpipe + 1 /\ UNCHANGED outpipe
    /\ towrite' = Tail(towrite)
    /\ UNCHANGED <<ppc, cpc>>
    /\ UNCHANGED <<selVars, fmtVars, renVars, conVars, batchVars, parserVars>>

\* The child has written everything and ends; its ends of the pipes close.
ChildExit ==
    /\ cpc = "running"
    /\ towrite = <<>>
    /\ cpc' = "exited"
    /\ UNCHANGED <<ppc, towrite, outpipe, errpipe>>
    /\ UNCHANGED <<selVars, fmtVars, renVars, conVars, batchVars, parserVars>>

\* io.Copy(os.Stdout, stdout): a chunk is read, or the end of the stream is
\* seen and the copy returns.
CopyStdout ==
    /\ ppc = "copyout"
    /\ \/ outpipe > 0 /\ outpipe' = outpipe - 1 /\ UNCHANGED ppc
       \/ outpipe = 0 /\ cpc = "exited" /\ ppc' = "copyerr" /\ UNCHANGED outpipe
    /\ UNCHANGED <<cpc, towrite, errpipe>>
    /\ UNCHANGED <<selVars, fmtVars, renVars, conVars, batchVars, parserVars>>

\* io.Copy(os.Stderr, stderr), entered when the copy of stdout has returned.
CopyStderr ==
    /\ ppc = "copyerr"
    /\ \/ errpipe > 0 /\ errpipe' = errpipe - 1 /\ UNCHANGED ppc
       \/ errpipe = 0 /\ cpc = "exited" /\ ppc' = "wait" /\ UNCHANGED errpipe
    /\ UNCHANGED <<cpc, towrite, outpipe>>
    /\ UNCHANGED <<selVars, fmtVars, renVars, conVars, batchVars, parserVars>>

\* cmd.Wait returns when the child has ended, and run returns.
Wait ==
    /\ ppc = "wait"
    /\ cpc = "exited"
    /\ ppc' = "returned"
    /\ UNCHANGED <<cpc, towrite, outpipe, errpipe>>
    /\ UNCHANGED <<selVars, fmtVars, renVars, conVars, batchVars, parserVars>>

NextPipe ==
    \/ ChildWrite
    \/ ChildExit
    \/ CopyStdout
    \/ CopyStderr
    \/ Wait

\* The scheduler lets the child and the parent take the steps they can take.
SpecPipe ==
    /\ InitPipe
    /\ [][NextPipe]_vars
    /\ WF_vars(ChildWrite \/ ChildExit)
    /\ WF_vars(CopyStdout \/ CopyStderr \/ Wait)

----------------------------------------------------------------------------
(* The event parser of the earlier version (mkvparser.go). The library     *)
(* reads the Tracks section of the file and calls the handler once for the *)
(* begin and the end of every master element and once for every string and *)
(* integer element. Master elements nest properly; a TrackEntry does not   *)
(* contain a TrackEntry. Which elements the file holds at which level is   *)
(* up to the file.                                                         *)

TrackEntryElement == "TrackEntry"
MasterElements == {"Tracks", TrackEntryElement, "Video"}

\* The string elements of a file: ID and value.
StringElements ==
    {<<"Name", "Forced">>, <<"Language", "fra">>,
     <<"CodecID", "S_TEXT/UTF8">>, <<"CodecName", "SubRip">>}

\* The integer elements of a file: ID and value.
IntegerElements ==
    {<<"TrackNumber", 1>>, <<"TrackUID", 7>>, <<"TrackType", 17>>,
     <<"FlagDefault", 0>>, <<"FlagDefault", 1>>, <<"FlagForced", 1>>}

InitParser ==
    /\ SelIdle
    /\ FmtIdle
    /\ RenIdle
    /\ ConIdle
    /\ BatchIdle
    /\ PipeIdle
    /\ handler = [track |-> trackinfo, tracks |-> <<>>, inTrack |-> FALSE]
    /\ open = <<>>
    /\ delivered = <<>>

HandleMasterBegin(id) ==
    /\ Len(delivered) < MaxEvents
    /\ id = TrackEntryElement => \A i \in DOMAIN open : open[i] # TrackEntryElement
    /\ handler' = IF id = TrackEntryElement
                  THEN [handler EXCEPT !.inTrack = TRUE]
                  ELSE handler
    /\ open' = Append(open, id)
    /\ delivered' = Append(delivered, [kind |-> "begin", id |-> id, value |-> Nil])
    /\ UNCHANGED <<selVars, fmtVars, renVars, conVars, batchVars, pipeVars>>

HandleMasterEnd(id) ==
    /\ Len(delivered) < MaxEvents
    /\ open # <<>>
    /\ id = open[Len(open)]
    /\ handler' = IF id = TrackEntryElement
                  THEN [handler EXCEPT !.tracks = Append(@, handler.track),
                                       !.track = trackinfo]
                  ELSE handler
    /\ open' = SubSeq(open, 1, Len(open) - 1)
    /\ delivered' = Append(delivered, [kind |-> "end", id |-> id, value |-> Nil])
    /\ UNCHANGED <<selVars, fmtVars, renVars, conVars, batchVars, pipeVars>>

HandleString(id, value) ==
    /\ Len(delivered) < MaxEvents
    /\ handler' =
          IF ~handler.inTrack THEN handler
          ELSE CASE id = "Name" -> [handler EXCEPT !.track.name = value]
                 [] id = "Language" -> [handler EXCEPT !.track.language = value]
                 [] id = "CodecID" -> [handler EXCEPT !.track.CodecID = value]
                 [] OTHER -> handler
    /\ delivered' = Append(delivered, [kind |-> "string", id |-> id, value |-> value])
    /\ UNCHANGED open
    /\ UNCHANGED <<selVars, fmtVars, renVars, conVars, batchVars, pipeVars>>

HandleInteger(id, value) ==
    /\ Len(delivered) < MaxEvents
    /\ handler' =
          IF ~handler.inTrack THEN handler
          ELSE CASE id = "TrackNumber" -> [handler EXCEPT !.track.number = value]
                 [] id = "TrackUID" -> [handler EXCEPT !.track.uid = value]
                 [] id = "TrackType" -> [handler EXCEPT !.track.tracktype = value]
                 [] id = "FlagDefault" ->
                        IF value # 0
                        THEN [handler EXCEPT !.track.flagDefault = TRUE]
                        ELSE handler
                 [] OTHER -> handler
    /\ delivered' = Append(delivered, [kind |-> "integer", id |-> id, value |-> value])
    /\ UNCHANGED open
    /\ UNCHANGED <<selVars, fmtVars, renVars, conVars, batchVars, pipeVars>>

NextParser ==
    \/ \E id \in MasterElements : HandleMasterBegin(id)
    \/ \E id \in MasterElements : HandleMasterEnd(id)
    \/ \E e \in StringElements : HandleString(e[1], e[2])
    \/ \E e \in IntegerElements : HandleInteger(e[1], e[2])

SpecParser == InitParser /\ [][NextParser]_vars

----------------------------------------------------------------------------
(* The program run with any of its commands, with and without --dry-run. *)

InitCli == InitRun \/ InitRename

NextCli ==
    \/ NextRun
    \/ NextRename

SpecCli == InitCli /\ [][NextCli]_vars

----------------------------------------------------------------------------
(* Properties of track selection. *)

\* trackByLanguage has returned in the running setdefaultbylang action.
Selected == action = "setdefaultbylang" /\ pc # "start"

\* The language a priority entry asks for, as the documentation states it.
AskedLanguage(entry) == IF entry = "default" THEN "" ELSE entry

\* For every track name and ignore list: the name contains one of the ignore
\* strings, letter case ignored.
IgnoredBy ==
    [name \in TrackNames |->
        [ign \in IgnoreLists |->
            \E k \in DOMAIN ign :
                Contains(ToLower(Chars(name)), ToLower(Chars(ign[k])))]]

\* The name contains one of the ignore strings of the run.
NameIgnored(name) == IgnoredBy[name][ignore]

\* The positions of the subtitle tracks in the language of priority entry l.
InLanguage(l) ==
    {k \in DOMAIN mkv.Tracks :
        /\ mkv.Tracks[k].Type = "subtitles"
        /\ mkv.Tracks[k].Language = AskedLanguage(languages[l])}

\* Those of them that are not ignored.
Candidates(l) == {k \in InLanguage(l) : ~NameIgnored(mkv.Tracks[k].TrackName)}

First(S) == CHOOSE k \in S : \A j \in S : k <= j

\* The positions of the tracks with the returned ID.
Returned == {k \in DOMAIN mkv.Tracks : mkv.Tracks[k].ID = track}

\* C1: the priority order of the languages decides: if priority position l is
\* the first with a subtitle track that is not ignored, the ID returned is that
\* of the first such track in track-list order.
C1_PriorityOrder ==
    Selected =>
        \A l \in DOMAIN languages :
            (Candidates(l) # {} /\ \A j \in 1..(l - 1) : Candidates(j) = {})
            => /\ trackErr = Nil
               /\ track = mkv.Tracks[First(Candidates(l))].ID

\* Tracks [fra, eng] with priority [eng, fra]: the eng track is returned.
C1_Witness ==
    /\ Selected
    /\ Len(mkv.Tracks) = 2
    /\ mkv.Tracks[1].Type = "subtitles" /\ mkv.Tracks[1].Language = "fra"
    /\ mkv.Tracks[2].Type = "subtitles" /\ mkv.Tracks[2].Language = "eng"
    /\ languages = <<"eng", "fra">>
    /\ ignore = <<>>
    /\ trackErr = Nil
    /\ track = mkv.Tracks[2].ID

\* C2: an ID returned without error is the ID of a subtitle track of the list
\* whose language is one of the priority languages and whose name contains none
\* of the ignore strings, letter case ignored.
C2_ReturnedTrackQualifies ==
    (Selected /\ trackErr = Nil) =>
        \E k \in Returned :
            /\ mkv.Tracks[k].Type = "subtitles"
            /\ \E l \in DOMAIN languages :
                  mkv.Tracks[k].Language = AskedLanguage(languages[l])
            /\ ~NameIgnored(mkv.Tracks[k].TrackName)

\* "English (Forced)" and "English", both eng, ignore ["forced"]: the plain
\* one is returned.
C2_Witness ==
    /\ Selected
    /\ Len(mkv.Tracks) = 2
    /\ mkv.Tracks[1] = [ID |-> 0, Type |-> "subtitles", Language |-> "eng",
                        TrackName |-> "English (Forced)"]
    /\ mkv.Tracks[2] = [ID |-> 1, Type |-> "subtitles", Language |-> "eng",
                        TrackName |-> "English"]
    /\ languages = <<"eng">>
    /\ ignore = <<"forced">>
    /\ trackErr = Nil
    /\ track = 1

\* C3: when the first subtitle track in a priority language is ignored, the
\* later tracks of that language are tried before the next language: a later
\* track of that language that is not ignored is returned, and an ignored track
\* is never returned.
C3_ScanContinuesPastIgnored ==
    Selected =>
        /\ \A l \in DOMAIN languages :
              ( /\ \A j \in 1..(l - 1) : Candidates(j) = {}
                /\ InLanguage(l) # {}
                /\ NameIgnored(mkv.Tracks[First(InLanguage(l))].TrackName)
                /\ Candidates(l) # {} )
              => /\ trackErr = Nil
                 /\ \E k \in Candidates(l) :
                       /\ k > First(InLanguage(l))
                       /\ track = mkv.Tracks[k].ID
        /\ trackErr = Nil =>
              \A k \in Returned : ~NameIgnored(mkv.Tracks[k].TrackName)

\* [eng forced, fra, eng plain] with priority [eng, fra] and ignore ["forced"]:
\* the third track is returned, not the fra track.
C3_Witness ==
    /\ Selected
    /\ Len(mkv.Tracks) = 3
    /\ mkv.Tracks[1] = [ID |-> 0, Type |-> "subtitles", Language |-> "eng",
                        TrackName |-> "English (Forced)"]
    /\ mkv.Tracks[2].Type = "subtitles" /\ mkv.Tracks[2].Language = "fra"
    /\ ~NameIgnored(mkv.Tracks[2].TrackName)
    /\ mkv.Tracks[3] = [ID |-> 2, Type |-> "subtitles", Language |-> "eng",
                        TrackName |-> "English"]
    /\ languages = <<"eng", "fra">>
    /\ ignore = <<"forced">>
    /\ trackErr = Nil
    /\ track = 2

\* The positions of the subtitle tracks with the empty language, not ignored.
EmptyLanguageCandidates ==
    {k \in DOMAIN mkv.Tracks :
        /\ mkv.Tracks[k].Type = "subtitles"
        /\ mkv.Tracks[k].Language = ""
        /\ ~NameIgnored(mkv.Tracks[k].TrackName)}

\* The subtitle tracks, not ignored, in the language named by entry l itself.
NamedLanguageCandidates(l) ==
    {k \in DOMAIN mkv.Tracks :
        /\ mkv.Tracks[k].Type = "subtitles"
        /\ mkv.Tracks[k].Language = languages[l]
        /\ languages[l] # "default"
        /\ ~NameIgnored(mkv.Tracks[k].TrackName)}

\* What entry l matches: the empty-language tracks for "default", the tracks
\* in the named language for any other entry.
EntryMatches(l) ==
    IF languages[l] = "default" THEN EmptyLanguageCandidates
    ELSE NamedLanguageCandidates(l)

\* C4: the entry "default" matches exactly the subtitle tracks with the empty
\* language, at its priority position; an empty-language track is returned only
\* for "default", a track with a language only for the entry naming it.
C4_DefaultIsEmptyLanguage ==
    Selected =>
        /\ \A l \in DOMAIN languages :
              ( /\ languages[l] = "default"
                /\ \A j \in 1..(l - 1) : EntryMatches(j) = {} )
              => IF EmptyLanguageCandidates # {}
                 THEN /\ trackErr = Nil
                      /\ track = mkv.Tracks[First(EmptyLanguageCandidates)].ID
                 ELSE trackErr = Nil =>
                        \A k \in Returned : mkv.Tracks[k].Language # ""
        /\ trackErr = Nil =>
              \A k \in Returned :
                 IF mkv.Tracks[k].Language = ""
                 THEN \E l \in DOMAIN languages : languages[l] = "default"
                 ELSE \E l \in DOMAIN languages :
                         /\ languages[l] = mkv.Tracks[k].Language
                         /\ languages[l] # "default"

\* [eng, no language] with priority [default, eng]: the track without a
\* language is returned.
C4_Witness ==
    /\ Selected
    /\ Len(mkv.Tracks) = 2
    /\ mkv.Tracks[1].Type = "subtitles" /\ mkv.Tracks[1].Language = "eng"
    /\ mkv.Tracks[2].Type = "subtitles" /\ mkv.Tracks[2].Language = ""
    /\ languages = <<"default", "eng">>
    /\ ignore = <<>>
    /\ trackErr = Nil
    /\ track = mkv.Tracks[2].ID

\* C5: trackByLanguage fails, with the error that lists the languages asked
\* for, exactly when no subtitle track is both in a priority language and not
\* ignored; after the failure setdefaultbylang runs no command for the file.
C5_NoMatchIffNoCandidate ==
    Selected =>
        /\ trackErr # Nil <=> \A l \in DOMAIN languages : Candidates(l) = {}
        /\ trackErr # Nil =>
              /\ trackErr = [kind |-> "no track with language(s)",
                             languages |-> languages]
              /\ pc = "done"
              /\ err = trackErr
              /\ cmds = <<>>

\* A failure although the file holds an English audio track, an ignored English
\* subtitle track and a subtitle track in a language not asked for.
C5_Witness ==
    /\ Selected
    /\ pc = "done"
    /\ trackErr # Nil
    /\ cmds = <<>>
    /\ languages = <<"eng">>
    /\ ignore = <<"forced">>
    /\ Len(mkv.Tracks) = 3
    /\ mkv.Tracks[1].Type = "audio" /\ mkv.Tracks[1].Language = "eng"
    /\ mkv.Tracks[2] = [ID |-> 1, Type |-> "subtitles", Language |-> "eng",
                        TrackName |-> "English (Forced)"]
    /\ mkv.Tracks[3] = [ID |-> 2, Type |-> "subtitles", Language |-> "fra",
                        TrackName |-> "English"]

\* A track with the ID given by --track exists in the file.
TrackExists == \E k \in DOMAIN mkv.Tracks : mkv.Tracks[k].ID = tracknum

\* adddefault has been called and has returned in a setdefault action.
AdddefaultReturned ==
    /\ action = "setdefault"
    /\ pc = "done"
    /\ ~(Len(cmds) = 1 /\ err = RunError("mkvpropedit"))

\* C6: the lookup by track number in extract and in adddefault succeeds exactly
\* when a track with that ID exists, and the command then built addresses that
\* track (mkvextract by the ID, mkvpropedit by the ID plus one); otherwise the
\* error names the track number and the file, and extract has run no command
\* and has created no temporary file.
C6_LookupByTrackNumber ==
    /\ (action = "only" /\ pc # "start") =>
          IF TrackExists
          THEN /\ err.kind # "track not found in file"
               /\ cmds # <<>> =>
                     /\ cmds[1].prog = "mkvextract"
                     /\ cmds[1].file = mkv.FileName
                     /\ \E k \in DOMAIN mkv.Tracks :
                           /\ mkv.Tracks[k].ID = tracknum
                           /\ cmds[1].track = mkv.Tracks[k].ID
          ELSE /\ err = [kind |-> "track not found in file",
                         tracknum |-> tracknum, file |-> mkv.FileName]
               /\ cmds = <<>>
               /\ tmpfiles = {}
    /\ AdddefaultReturned =>
          IF TrackExists
          THEN /\ Len(cmds) = 2
               /\ err.kind # "file does not contain track"
               /\ cmds[2].prog = "mkvpropedit"
               /\ cmds[2].file = mkv.FileName
               /\ \E k \in DOMAIN mkv.Tracks :
                     /\ mkv.Tracks[k].ID = tracknum
                     /\ cmds[2].edits = <<[edit |-> mkv.Tracks[k].ID + 1,
                                           set |-> "flag-default=1"]>>
          ELSE /\ Len(cmds) = 1
               /\ err = [kind |-> "file does not contain track",
                         file |-> mkv.FileName, tracknum |-> tracknum]

\* extract has failed on a track number the two-track file does not hold.
C6_Witness ==
    /\ action = "only"
    /\ pc = "done"
    /\ Len(mkv.Tracks) = 2
    /\ tracknum = 2
    /\ err.kind = "track not found in file"
    /\ cmds = <<>>

----------------------------------------------------------------------------
(* Properties of format. *)

FormatOk == fpc = "done" /\ ferr = Nil
FormatFailed == fpc = "done" /\ ferr.kind = "format"
TitleOf(flds) == Chars(flds.Title.str)
LongTitle == "a bad title that makes one of a kind"

\* The renderings a reader of the documentation expects.
Decimal == (1 :> <<"1">>) @@ (2 :> <<"2">>) @@ (12 :> <<"1","2">>)
           @@ (2022 :> <<"2","0","2","2">>)
TwoDigits == (1 :> <<"0","1">>) @@ (2 :> <<"0","2">>) @@ (12 :> <<"1","2">>)
ThreeDigits == (1 :> <<"0","0","1">>) @@ (12 :> <<"0","1","2">>)
Capitalised ==
    ("foo" :> <<"F","o","o">>)
    @@ ("the bad title" :> <<"T","h","e"," ","B","a","d"," ","T","i","t","l","e">>)
    @@ ("a bad title that makes one of a kind" :> <<"A"," ","B","a","d"," ","T","i","t","l","e"," ","T","h","a","t"," ","M","a","k","e","s"," ","O","n","e"," ","O","f"," ","A"," ","K","i","n","d">>)
FirstTwoOfFive ==
    ("foo" :> <<"F","o"," "," "," ">>)
    @@ ("the bad title" :> <<"T","h"," "," "," ">>)
    @@ ("a bad title that makes one of a kind" :> <<"A"," "," "," "," ">>)

\* A string filled with spaces on its right up to n characters.
FilledTo(n, str) ==
    [i \in 1..(IF Len(str) > n THEN Len(str) ELSE n) |->
        IF i <= Len(str) THEN str[i] ELSE " "]

\* What a piece of the mask is expected to become.
Rendered(piece, flds) ==
    CASE piece = TokTitle -> Capitalised[flds.Title.str]
      [] piece = TokSeason -> Decimal[flds.Season.int]
      [] piece = TokSeason022 -> TwoDigits[flds.Season.int]
      [] piece = TokEpisode022 -> TwoDigits[flds.Episode.int]
      [] piece = TokYear -> Decimal[flds.Year.int]
      [] piece = TokQuality -> <<"H","D","T","V">>
      [] piece = TokSeason03 -> ThreeDigits[flds.Season.int]
      [] piece = TokTitleLeft52 -> FirstTwoOfFive[flds.Title.str]
      [] piece = TokTitleLeft20 -> FilledTo(20, Capitalised[flds.Title.str])
      [] OTHER -> piece

\* C7: a mask that format renders comes out as its pieces from left to right,
\* the text outside tokens as it is, an integer field in decimal under the
\* token's size specifier (%02.2{season} of season 1 is "01", %{season} is
\* "1"), a string field as a string under the specifier.
C7_TokensSubstitutedInOrder ==
    FormatOk =>
        fret = Flatten([i \in DOMAIN parts |-> Rendered(parts[i], fields)])

C7_Witness ==
    /\ FormatOk
    /\ parts = ExampleParts
    /\ fields.Title.str = "foo"
    /\ fields.Season.int = 1
    /\ fields.Episode.int = 2
    /\ fret = <<"F","o","o"," ","S","0","1","E","0","2">>

Minor == {<<"a">>, <<"a","n">>, <<"o","n">>, <<"t","h","e">>, <<"t","o">>}
WordStart(str, i) == i = 1 \/ str[i - 1] = " "
WordAt(str, i) == SubSeq(str, i, runEnd(str, i, Letters) - 1)
Upper(c) == IF c \in DOMAIN UpperOf THEN UpperOf[c] ELSE c

\* The rule of the claim: a word is capitalised unless it is a minor word that
\* is not the first word.
MinorWordsStayLower(str) ==
    [i \in 1..Len(str) |->
        IF WordStart(str, i) /\ (i = 1 \/ WordAt(str, i) \notin Minor)
        THEN Upper(str[i]) ELSE str[i]]

\* The rule of the code on titles in lower case: every word is capitalised.
EveryWordCapitalised(str) ==
    [i \in 1..Len(str) |-> IF WordStart(str, i) THEN Upper(str[i]) ELSE str[i]]

\* C8 as stated: the title is rendered with every word capitalised except the
\* minor words a, an, on, the, to, which stay in lower case unless first; the
\* other string fields keep their case.
C8_MinorWordsStayLower ==
    FormatOk =>
        /\ parts = <<TokTitle>> => fret = MinorWordsStayLower(TitleOf(fields))
        /\ parts = <<TokQuality>> => fret = Chars(fields.Quality.str)

\* C8 amended: the title is rendered with every word capitalised, the minor
\* words a, an, on, the, to included wherever they stand; the other string
\* fields keep their case.
C8_EveryWordCapitalised ==
    FormatOk =>
        /\ parts = <<TokTitle>> => fret = EveryWordCapitalised(TitleOf(fields))
        /\ parts = <<TokQuality>> => fret = Chars(fields.Quality.str)

\* A title with the minor word "a" in the middle has been rendered, and the
\* word came out as "A".
C8_Witness ==
    /\ FormatOk
    /\ parts = <<TokTitle>>
    /\ fields.Title.str = LongTitle
    /\ SubSeq(fret, 28, 32) = <<"O","f"," ","A"," ">>

\* C9: where the mask starts with %{title}, the output starts with the title,
\* the first letter of every word in upper case, short words included, and
\* "a bad title that makes one of a kind" becomes
\* "A Bad Title That Makes One Of A Kind".
C9_FirstLetterOfEveryWord ==
    (FormatOk /\ parts # <<>> /\ parts[1] = TokTitle) =>
        LET t == TitleOf(fields)
            r == SubSeq(fret, 1, Len(t))
        IN /\ Len(fret) >= Len(t)
           /\ ToLower(r) = ToLower(t)
           /\ \A i \in 1..Len(t) :
                 (WordStart(t, i) /\ t[i] \in LowerLetters) => r[i] = UpperOf[t[i]]
           /\ fields.Title.str = LongTitle => r = <<"A"," ","B","a","d"," ","T","i","t","l","e"," ","T","h","a","t"," ","M","a","k","e","s"," ","O","n","e"," ","O","f"," ","A"," ","K","i","n","d">>

C9_Witness ==
    /\ FormatOk
    /\ parts = TestParts
    /\ fields.Title.str = LongTitle
    /\ fret = <<"A"," ","B","a","d"," ","T","i","t","l","e"," ","T","h","a","t"," ","M","a","k","e","s"," ","O","n","e"," ","O","f"," ","A"," ","K","i","n","d"," ","2","0","2","2">>

\* The field a token names.
FieldOf(piece) ==
    CASE piece \in {TokTitle, TokTitleLeft52, TokTitleLeft20} -> "Title"
      [] piece \in {TokSeason, TokSeason022, TokSeason03} -> "Season"
      [] piece = TokEpisode022 -> "Episode"
      [] piece = TokYear -> "Year"
      [] piece = TokQuality -> "Quality"
      [] piece = TokProper -> "Proper"
      [] piece = TokBad -> "Bad"

\* A token is unresolved in the words of the claim: its name is not a key, or
\* the field is the empty string, or the field is an integer <= 0.
Unset(piece, flds) ==
    \/ FieldOf(piece) \notin DOMAIN flds
    \/ /\ FieldOf(piece) \in DOMAIN flds
       /\ LET v == flds[FieldOf(piece)]
          IN \/ v.type = "string" /\ v.str = ""
             \/ v.type = "int" /\ v.int <= 0

\* C10: once the file name is parsed, format returns an error exactly when a
\* token of the mask names no key, an empty string or an integer <= 0; the
\* error is of one kind for an unknown and for an unset field; a mask whose
\* tokens all hold a non-empty string or a positive integer does not fail.
C10_ErrorIffUnsetToken ==
    (fpc = "done" /\ ferr.kind # "Parse failed") =>
        /\ FormatFailed <=>
              \E i \in DOMAIN parts : parts[i] \in Tokens /\ Unset(parts[i], fields)
        /\ FormatFailed =>
              \A i \in DOMAIN ferr.msgs : ferr.msgs[i].kind = "Unable to parse data for"

\* The tokens of the mask that are unresolved, in mask order.
UnsetTokens ==
    SelectSeq(parts, LAMBDA p : p \in Tokens /\ Unset(p, fields))

\* C11: the error of format has one entry for every occurrence of an
\* unresolved token, in mask order, each with the literal text of the token;
\* the tokens after an unresolved one are processed too.
C11_ErrorsAccumulate ==
    FormatFailed =>
        /\ SelectSeq(ferr.msgs, LAMBDA e : e.kind = "Unable to parse data for")
              = [i \in DOMAIN UnsetTokens |->
                    [kind |-> "Unable to parse data for", token |-> UnsetTokens[i]]]
        /\ pos = Len(mask) + 1
        /\ formatted =
              Flatten([i \in DOMAIN parts |->
                         IF parts[i] \in Tokens
                            /\ (Unset(parts[i], fields) \/ FieldOf(parts[i]) = "Proper")
                         THEN ErrorText
                         ELSE Rendered(parts[i], fields)])

C11_Witness ==
    /\ FormatFailed
    /\ parts = <<TokBad, TokYear>>
    /\ fields.Year.int = 0
    /\ Len(ferr.msgs) = 2
    /\ ferr.msgs[1].token = TokBad
    /\ ferr.msgs[2].token = TokYear

\* A token of the mask given to rename is unresolved for the file renamed.
RenameMaskUnresolved ==
    /\ fname \in DOMAIN MetaOf
    /\ \E i \in DOMAIN parts : parts[i] \in Tokens /\ Unset(parts[i], MetaOf[fname])

\* C12: a format that fails returns the empty string and never a partly
\* substituted one, and a rename whose mask has an unresolved token returns the
\* error, prints no new name and renames no file.
C12_AllOrNothing ==
    /\ FormatFailed => fret = <<>>
    /\ (rpc = "done" /\ ferr.kind # "Parse failed" /\ RenameMaskUnresolved) =>
          /\ rerr # Nil
          /\ printed = <<>>
          /\ renames = <<>>

\* The mask is literal text only.
LiteralMask == \A i \in DOMAIN parts : parts[i] \in Literals \cup {LitSpace}

\* C13: once the file name is parsed, a mask without a token is returned as it
\* is, without an error, whatever the fields hold.
C13_LiteralMaskUnchanged ==
    (fpc = "done" /\ ferr.kind # "Parse failed" /\ LiteralMask) =>
        /\ ferr = Nil
        /\ fret = mask
        /\ fret = Flatten(parts)

C13_Witness ==
    /\ FormatOk
    /\ parts = <<LitS, LitE>>
    /\ fields = NoFieldSet
    /\ fret = <<" ", "S", "E">>

\* The mask holds text that looks like a token and is none.
HasNearToken == \E i \in DOMAIN parts : parts[i] \in NearTokens

----------------------------------------------------------------------------
(* Properties of the actions and of the commands they run. *)

SingleTrackReturned == action = "singletrack" /\ pc # "start"

\* C15: actionSingleTrack goes on to select a track only when exactly one of
\* --track and --lang is set; with both or with neither it returns an error,
\* the file is not parsed and no command is handed to the runner; with one of
\* them the track is the number given or the one found by language, never a
\* mix of the two.
C15_TrackXorLang ==
    SingleTrackReturned =>
        /\ (hastrack = haslang) =>
              /\ pc = "done"
              /\ err.kind \in {"need input and output files",
                               "must specify track (--track) OR language (--lang)"}
              /\ ~parsed
              /\ cmds = <<>>
              /\ tmpfiles = {}
        /\ parsed => hastrack # haslang
        /\ (parsed /\ hastrack) => (track = tracknum /\ trackErr = Nil)
        /\ (parsed /\ haslang) =>
              LET r == trackByLanguageAndType(mkv, languages, type, ignore)
              IN track = r.id /\ trackErr = r.err

C15_Witness ==
    /\ action = "singletrack"
    /\ nargs = 2
    /\ hastrack /\ haslang
    /\ type = "s"
    /\ Len(mkv.Tracks) = 1
    /\ pc = "done"
    /\ err.kind = "must specify track (--track) OR language (--lang)"

\* The position in the file of the track with the ID n, 0 if there is none.
PositionOf(n) ==
    IF \E k \in DOMAIN mkv.Tracks : mkv.Tracks[k].ID = n
    THEN CHOOSE k \in DOMAIN mkv.Tracks : mkv.Tracks[k].ID = n
    ELSE 0

\* C16: every edit of an mkvpropedit command selects ID+1 of a track of the
\* file, which is the position of that track: the edits that clear the flag
\* are those of the subtitle tracks, the edit that sets it is that of the
\* track the action works with; every mkvextract command carries the ID of
\* that track unchanged.
C16_TrackNumbersZeroBased ==
    \A j \in DOMAIN cmds :
        /\ cmds[j].prog = "mkvpropedit" =>
              \A e \in DOMAIN cmds[j].edits :
                 LET n == cmds[j].edits[e].edit
                 IN /\ PositionOf(n - 1) # 0
                    /\ n = PositionOf(n - 1)
                    /\ cmds[j].edits[e].set = "flag-default=1" => n = track + 1
                    /\ cmds[j].edits[e].set = "flag-default=0" =>
                          mkv.Tracks[n].Type = typeSubtitle
        /\ (cmds[j].prog = "mkvpropedit" /\ j = 1) =>
              Len(cmds[j].edits) =
                 Cardinality({k \in DOMAIN mkv.Tracks : mkv.Tracks[k].Type = typeSubtitle})
        /\ cmds[j].prog = "mkvextract" =>
              /\ cmds[j].track = track
              /\ PositionOf(cmds[j].track) # 0

\* setdefault has run on track 1 of a file with two subtitle tracks and an
\* audio track: the flags of 1 and 2 are cleared and the flag of 2 is set.
C16_Witness ==
    /\ action = "setdefault"
    /\ pc = "done"
    /\ Len(mkv.Tracks) = 3
    /\ mkv.Tracks[1].Type = typeSubtitle
    /\ mkv.Tracks[2].Type = typeSubtitle
    /\ mkv.Tracks[3].Type = "audio"
    /\ tracknum = 1
    /\ Len(cmds) = 2
    /\ cmds[1].edits = <<[edit |-> 1, set |-> "flag-default=0"],
                         [edit |-> 2, set |-> "flag-default=0"]>>
    /\ cmds[2].edits = <<[edit |-> 2, set |-> "flag-default=1"]>>

\* C17: when the action that keeps one subtitle track returns without an
\* error, it has handed two commands to the runner: mkvextract of the chosen
\* track, and then mkvmerge with -S for the input file and with the file of
\* the extracted track and its language.
C17_OnlyKeepsChosenTrack ==
    (action = "singletrack" /\ pc = "done" /\ err = Nil) =>
        /\ Len(cmds) = 2
        /\ cmds[1] = extractCommand(mkv, track, TempName)
        /\ cmds[2].prog = "mkvmerge"
        /\ cmds[2].infile = mkv.FileName
        /\ cmds[2].nosubs
        /\ cmds[2].subs =
              <<[language |-> mkv.Tracks[PositionOf(track)].Language,
                 fname |-> TempName]>>

\* The subtitle tracks that carry the default flag.
DefaultSubtitles ==
    {k \in DOMAIN mkv.Tracks : mkv.Tracks[k].Type = typeSubtitle /\ flags[k]}

SetdefaultSucceeded ==
    /\ action \in {"setdefault", "setdefaultbylang"}
    /\ pc = "done"
    /\ err = Nil
    /\ ~dryrun

\* C18: when setdefault has succeeded for a subtitle track, that track carries
\* the default flag and no other subtitle track of the file does, whatever
\* the flags were.
C18_OneDefaultSubtitle ==
    (/\ SetdefaultSucceeded
     /\ PositionOf(track) # 0
     /\ mkv.Tracks[PositionOf(track)].Type = typeSubtitle) =>
        DefaultSubtitles = {PositionOf(track)}

\* setdefault has succeeded for the second of three subtitle tracks: the first
\* command cleared all three flags, the second set the flag of the track.
C18_Witness ==
    /\ SetdefaultSucceeded
    /\ action = "setdefault"
    /\ Len(mkv.Tracks) = 3
    /\ \A k \in 1..3 : mkv.Tracks[k].Type = typeSubtitle
    /\ track = 1
    /\ flags = <<FALSE, TRUE, FALSE>>
    /\ Len(executed) = 2

\* The commands an action hands to the runner when every command succeeds,
\* from the command line, the file and the track selected.
ExpectedCommands ==
    IF action \in {"setdefault", "setdefaultbylang"}
    THEN IF trackErr # Nil THEN <<>>
         ELSE <<setdefaultCommand(mkv)>>
              \o (IF PositionOf(track) # 0
                  THEN <<adddefaultCommand(mkv, track)>> ELSE <<>>)
    ELSE IF action = "singletrack"
    THEN IF ~parsed \/ trackErr # Nil \/ PositionOf(track) = 0
            \/ err.kind = "TempFile failed"
         THEN <<>>
         ELSE <<extractCommand(mkv, track, TempName),
                submuxCommand(mkv.FileName, OutFile, TRUE, <<>>)>>
    ELSE <<>>

\* C19: with --dry-run the runner executes no command and rename calls no
\* os.Rename; every command handed to the runner is logged and reported as a
\* success; the commands logged by an action are those that the action
\* executes without --dry-run when every command succeeds.
C19_DryRunExecutesNothing ==
    /\ dryrun =>
          /\ executed = <<>>
          /\ renames = <<>>
          /\ logged = cmds
          /\ err.kind # "command failed"
    /\ ~dryrun => (logged = <<>> /\ executed = cmds)
    /\ (pc = "done" /\ dryrun) => logged = ExpectedCommands
    /\ (pc = "done" /\ ~dryrun /\ err.kind # "command failed") =>
          executed = ExpectedCommands

C19_Witness ==
    /\ dryrun
    /\ action = "setdefault"
    /\ pc = "done"
    /\ err = Nil
    /\ Len(logged) = 2
    /\ logged[2].prog = "mkvpropedit"
    /\ executed = <<>>

\* The tokens of the model whose names the documentation of format lists.
DocumentedTokens == (Tokens \ {TokBad}) \cup {TokEpisodeName}

\* The parsed name holds a value for the field of a token.
HoldsValue(piece, flds) ==
    /\ piece \in Tokens
    /\ FieldOf(piece) \in DOMAIN flds
    /\ LET v == flds[FieldOf(piece)]
       IN \/ v.type = "string" /\ v.str # ""
          \/ v.type = "int" /\ v.int > 0
          \/ v.type = "bool" /\ v.bool

\* C20: a token with a name of the documentation is matched by the pattern,
\* and when the parsed name holds a value for it, format returns the value in
\* its place: not the text of the token and not an error.
C20_DocumentedTokensRender ==
    (/\ fpc = "done"
     /\ ferr.kind # "Parse failed"
     /\ Len(parts) = 1
     /\ parts[1] \in DocumentedTokens) =>
        /\ matchAt(mask, 1).ok
        /\ matchAt(mask, 1).end = Len(mask)
        /\ HoldsValue(parts[1], fields) => (FormatOk /\ fret # mask)

----------------------------------------------------------------------------
(* Properties of the size specifier. *)

\* C21: the text that %-20{title} puts in place of the token is the title
\* truncated to the width, never longer than 20 characters.
C21_WidthTruncates ==
    (FormatOk /\ parts = <<TokTitleLeft20>>) =>
        /\ Len(fret) <= 20
        /\ \A i \in DOMAIN fret :
              i <= Len(Capitalised[fields.Title.str]) =>
                  fret[i] = Capitalised[fields.Title.str][i]

----------------------------------------------------------------------------
(* Properties of print and rename. *)

\* print has printed a string for the file and rename a new name.
PrintedAndRenamed ==
    /\ rpc = "done"
    /\ Len(printed) = 2
    /\ DOMAIN printed[1] = {"out"}
    /\ DOMAIN printed[2] = {"old", "new"}

\* C22: for the same mask and the same file, the new name of rename is the
\* string print outputs, placed in the directory of the file.
C22_RenameEqualsPrint ==
    (PrintedAndRenamed /\ fname \in DOMAIN MetaOf) =>
        printed[2].new = joinPath(splitDir(Chars(fname)), printed[1].out)

----------------------------------------------------------------------------
(* Properties of concurrent calls. *)

\* C23: a call of format or of trackByLanguage that has returned while another
\* call was running has the result, the error and the error list of the same
\* call run alone, and its inputs are as they were given.
C23_CallsDoNotInterfere ==
    \A c \in Callers :
        LET k == calls[c]
        IN k.pc = "done" =>
              IF k.fn = "format"
              THEN \/ k.err = [kind |-> "Parse failed"] /\ k.ret = <<>>
                   \/ /\ [ret |-> k.ret, err |-> k.err] = format(k.mask, k.fields)
                      /\ k.err # Nil => k.err.msgs = k.errlist
                      /\ k.err = Nil => k.errlist = <<>>
              ELSE [id |-> k.ret, err |-> k.err]
                      = trackByLanguage(k.mkv, k.languages, k.ignore)

\* A call of format has returned its rendering while another call of format
\* with two unresolved tokens was half-way, one error in its list.
C23_Witness ==
    /\ calls[1].fn = "format" /\ calls[1].pc = "replace"
    /\ calls[1].mask = Flatten(<<TokBad, TokYear>>)
    /\ Len(calls[1].errlist) = 1
    /\ calls[2].fn = "format" /\ calls[2].pc = "done"
    /\ calls[2].mask = Flatten(ExampleParts)
    /\ calls[2].ret = <<"F","o","o"," ","S","0","1","E","0","2">>
    /\ calls[2].err = Nil

----------------------------------------------------------------------------
(* Properties of setdefault. *)

SubtitlePositions == {i \in DOMAIN mkv.Tracks : mkv.Tracks[i].Type = typeSubtitle}

\* Command c clears the flag of every subtitle track and of no other track.
ClearsSubtitles(c) ==
    /\ c.prog = "mkvpropedit"
    /\ c.file = mkv.FileName
    /\ Len(c.edits) = Cardinality(SubtitlePositions)
    /\ {c.edits[j].edit : j \in DOMAIN c.edits} = SubtitlePositions
    /\ \A j \in DOMAIN c.edits : c.edits[j].set = "flag-default=0"

\* Command c sets the flag of the chosen track and does nothing else.
SetsChosen(c) ==
    /\ c.prog = "mkvpropedit"
    /\ c.file = mkv.FileName
    /\ Len(c.edits) = 1
    /\ c.edits[1].set = "flag-default=1"
    /\ mkv.Tracks[c.edits[1].edit].ID = track

InSetdefault == action \in {"setdefault", "setdefaultbylang"}

\* The commands issued so far are the clearing command, or the clearing
\* command and then the setting command.
ClearThenSet ==
    /\ Len(cmds) <= 2
    /\ Len(cmds) >= 1 => ClearsSubtitles(cmds[1])
    /\ Len(cmds) = 2 => SetsChosen(cmds[2])

\* C24: setdefault issues at most two mkvpropedit commands, first the one that
\* clears the flag of every subtitle track (one edit for each, none for a
\* track of another type), then the one that sets the flag of the chosen
\* track; when the first command fails the second is never issued.
C24_ClearThenSet ==
    [][InSetdefault =>
          /\ ClearThenSet'
          /\ (pc = "setdefault" /\ err' = RunError("mkvpropedit")) =>
                 /\ pc' = "done"
                 /\ Len(cmds') = 1
          /\ pc = "done" => cmds' = cmds]_vars

\* Both commands were issued for a file with an audio track and two subtitle
\* tracks.
C24_Witness ==
    /\ action = "setdefault"
    /\ pc = "done"
    /\ Len(mkv.Tracks) = 3
    /\ mkv.Tracks[1].Type = "audio"
    /\ SubtitlePositions = {2, 3}
    /\ tracknum = 2
    /\ Len(cmds) = 2
    /\ Len(cmds[1].edits) = 2
    /\ cmds[2].edits[1].edit = 3

\* C25: setdefault with a track number the file does not have fails before any
\* command is handed to the runner, so nothing is executed and the flags of
\* the file are as they were.
C25_MissingTrackRunsNothing ==
    (action = "setdefault" /\ pc = "done"
        /\ err.kind = "file does not contain track") =>
        /\ cmds = <<>>
        /\ executed = <<>>

----------------------------------------------------------------------------
(* Properties of the temporary file. *)

\* C27: when the only action has returned, no temporary file that extract
\* created is left, whether the commands succeeded or mkvextract or mkvmerge
\* failed.
C27_TempFileRemoved ==
    (action \in {"only", "singletrack"} /\ pc = "done") => tmpfiles = {}

----------------------------------------------------------------------------
(* Properties of the actions that take several files. *)

\* The files the action is to process: all of them for print, which does not
\* look whether a file exists, the readable ones for the other actions.
ToProcess ==
    SelectSeq(files, LAMBDA f : baction = "print" \/ f.readable)

\* The file fails: it cannot be parsed by an action that parses it, or the
\* call made for it returns an error.
FileFails(f) ==
    \/ baction \in {"setdefault", "setdefaultbylang"} /\ ~f.parses
    \/ f.fails

FailedFiles == SelectSeq(ToProcess, LAMBDA f : FileFails(f))

\* C26: an action given files ends by returning; it has then gone through
\* every readable file, whatever failed before, and it returns an error
\* exactly when a file failed, with one line for each failed file that names
\* the file.
C26_LoopNeverStops ==
    (files # <<>> /\ bpc \notin {"start", "loop"}) =>
        /\ bpc = "done"
        /\ fidx = Len(ToProcess) + 1
        /\ bret # Nil <=> FailedFiles # <<>>
        /\ bret # Nil =>
              bret.lines = [i \in DOMAIN FailedFiles |-> [fname |-> FailedFiles[i].name]]

----------------------------------------------------------------------------
(* Properties of the runner. *)

\* C28: whatever the child writes and in whatever order, run returns: the
\* parent is never left reading an empty stdout pipe for ever while the child
\* waits for room in the stderr pipe.
C28_RunReturns == <>(ppc = "returned")

----------------------------------------------------------------------------
(* The current trackByLanguage against the earlier one. *)

\* The tracks of the file as the earlier version's parser records them: the
\* number stored in the file is the ID of mkvmerge plus one, and subtitle
\* tracks have Matroska's track type 17, audio tracks 2.
AsTrackinfo ==
    [i \in DOMAIN mkv.Tracks |->
        [number |-> mkv.Tracks[i].ID + 1,
         tracktype |-> IF mkv.Tracks[i].Type = "subtitles" THEN oldTypeSubtitle ELSE 2,
         language |-> mkv.Tracks[i].Language,
         name |-> mkv.Tracks[i].TrackName]]

\* C29: with no --ignore value the current trackByLanguage returns the track
\* the earlier version returns for the same tracks and languages, as the ID
\* (from 0) where the earlier version returns the number (from 1), and it
\* returns an error exactly when the earlier version does.
C29_SameTrackAsEarlierVersion ==
    (Selected /\ ignore = <<>>) =>
        LET old == oldTrackByLanguage(AsTrackinfo, languages)
        IN /\ trackErr = Nil <=> old.err = Nil
           /\ trackErr = Nil => old.number = track + 1
           /\ trackErr # Nil => trackErr = old.err /\ track = 0 /\ old.number = 0

\* Tracks [audio, fra, no language] with priority [default, fra]: both
\* versions return the third track, the current one as ID 2.
C29_Witness ==
    /\ Selected
    /\ ignore = <<>>
    /\ languages = <<"default", "fra">>
    /\ Len(mkv.Tracks) = 3
    /\ mkv.Tracks[1].Type = "audio"
    /\ mkv.Tracks[2].Language = "fra" /\ mkv.Tracks[2].Type = "subtitles"
    /\ mkv.Tracks[3].Language = "" /\ mkv.Tracks[3].Type = "subtitles"
    /\ track = 2
    /\ oldTrackByLanguage(AsTrackinfo, languages).number = 3

----------------------------------------------------------------------------
(* The records of the event parser. *)

\* The record with one delivered value written to its field.
WithValue(rec, ev) ==
    CASE ev.id = "Name" -> [rec EXCEPT !.name = ev.value]
      [] ev.id = "Language" -> [rec EXCEPT !.language = ev.value]
      [] ev.id = "CodecID" -> [rec EXCEPT !.CodecID = ev.value]
      [] ev.id = "TrackNumber" -> [rec EXCEPT !.number = ev.value]
      [] ev.id = "TrackUID" -> [rec EXCEPT !.uid = ev.value]
      [] ev.id = "TrackType" -> [rec EXCEPT !.tracktype = ev.value]
      [] ev.id = "FlagDefault" /\ ev.value # 0 -> [rec EXCEPT !.flagDefault = TRUE]
      [] OTHER -> rec

\* The records a list of events stands for: one per end of a TrackEntry, made
\* of the values delivered since the begin of that TrackEntry. inside says
\* whether a TrackEntry is open at event i, cur is its record so far.
RECURSIVE RecordsFrom(_, _, _, _, _)
RecordsFrom(evs, i, inside, cur, acc) ==
    IF i > Len(evs) THEN acc
    ELSE LET ev == evs[i]
         IN CASE ev.kind = "begin" /\ ev.id = TrackEntryElement ->
                     RecordsFrom(evs, i + 1, TRUE, trackinfo, acc)
              [] ev.kind = "end" /\ ev.id = TrackEntryElement ->
                     RecordsFrom(evs, i + 1, FALSE, trackinfo, Append(acc, cur))
              [] ev.kind \in {"string", "integer"} /\ inside ->
                     RecordsFrom(evs, i + 1, inside, WithValue(cur, ev), acc)
              [] OTHER -> RecordsFrom(evs, i + 1, inside, cur, acc)

RecordsOf(evs) == RecordsFrom(evs, 1, FALSE, trackinfo, <<>>)

EntryOpen == \E i \in DOMAIN open : open[i] = TrackEntryElement

\* C30: after any events the records of tracks are, in order, one per ended
\* TrackEntry, each made of the values delivered between the begin and the
\* end of that TrackEntry only, and inTrack is true exactly while a TrackEntry
\* is open.
C30_RecordsHoldOwnValues ==
    /\ handler.tracks = RecordsOf(delivered)
    /\ handler.inTrack <=> EntryOpen

====
